---------------------------- MODULE Spec2Model ----------------------------
(***************************************************************************)
(* TimescaleDB GPU bridge: runtime discovery (gpu_bridge.c), eligibility   *)
(* analysis and dispatch (gpu_dispatch.c), cost model (cost_model.c) and   *)
(* the Arrow-to-KDS transcoder (arrow_kds.c).                              *)
(*                                                                         *)
(* C doubles are modelled as exact rationals <<numerator, denominator>>    *)
(* (denominator > 0, lowest terms); every double computed below is the     *)
(* result of at most a few operations on small integers.                   *)
(***************************************************************************)
EXTENDS Integers, Sequences, FiniteSets, TLC

(***************************************************************************)
(* Bounds of the model.                                                    *)
(***************************************************************************)
MaxRows == 3
MaxAggs == 2
MaxRc == 1

\* A row count that fills one 64-bit validity word.
WordRows == 64

(***************************************************************************)
(* Program constants.                                                      *)
(***************************************************************************)
INT_MAX == 2147483647
DEFAULT_LAUNCH_OVERHEAD == 100
DEFAULT_GPU_PARALLELISM == 1024
KDS_HDR_LENGTH_OFF == 0
KDS_HDR_FORMAT_OFF == 4
KDS_HDR_NCOLS_OFF == 6
KDS_HDR_NROOMS_OFF == 8
KDS_HDR_NITEMS_OFF == 12
KDS_HDR_COL_OFFSETS == 16
KDS_FORMAT_COLUMN == 4
POINTTYPE == 1
GEOM_FLAG_Z == 1
XPU_GEOM_POINT_Z_SIZE == 48

\* A length test that also rejects a record of exactly 29 bytes.
WKB_POINT_Z_MIN_EXCLUSIVE == 29 + 1

\* byte order (1) + type (4) + three doubles: the least WKB POINT Z record
WKB_POINT_Z_MIN == 29

MAXIMUM_ALIGNOF == 8
SIZEOF_DATUM == 8
SIZEOF_BOOL == 1

(***************************************************************************)
(* Exact rational arithmetic standing for C double arithmetic.             *)
(***************************************************************************)
Abs(x) == IF x < 0 THEN -x ELSE x

RECURSIVE GCD(_, _)
GCD(a, b) == IF b = 0 THEN a ELSE GCD(b, a % b)

Rat(n, d) == LET g == GCD(Abs(n), d) IN IF n = 0 THEN <<0, 1>> ELSE <<n \div g, d \div g>>

RInt(k) == <<k, 1>>

RZero == <<0, 1>>

RAdd(a, b) == Rat(a[1] * b[2] + b[1] * a[2], a[2] * b[2])

RSub(a, b) == Rat(a[1] * b[2] - b[1] * a[2], a[2] * b[2])

RMulInt(k, a) == LET g == GCD(Abs(k), a[2]) IN Rat((k \div g) * a[1], a[2] \div g)

RDivInt(a, k) == LET g == GCD(Abs(a[1]), k) IN Rat(a[1] \div g, a[2] * (k \div g))

RLt(a, b) == LET g == GCD(a[2], b[2]) IN a[1] * (b[2] \div g) < b[1] * (a[2] \div g)

RLe(a, b) == LET g == GCD(a[2], b[2]) IN a[1] * (b[2] \div g) <= b[1] * (a[2] \div g)

RPos(a) == a[1] > 0

DEFAULT_TRANSFER_COST_PER_BYTE == <<1, 10000>>

(***************************************************************************)
(* The process symbol table seen by dlsym(RTLD_DEFAULT, ...).              *)
(***************************************************************************)
StromSymbols == {"pgstrom_xpu_command", "pgstrom_device_func_lookup",
                 "pgstrom_opcode_cost", "pgstrom_gpu_parallelism"}

HostSymbol == "ts_extension_is_loaded"

Symbols == StromSymbols \cup {HostSymbol}

(***************************************************************************)
(* Expression trees (Expr nodes).  One record shape for every node kind:   *)
(* id is funcid / opfuncid / aggfnoid, args the argument list, filter the  *)
(* optional aggfilter (a list of zero or one expression).                  *)
(***************************************************************************)
Node(t, i, a, f) == [tag |-> t, id |-> i, args |-> a, filter |-> f]

NullExpr == Node("NULL", 0, <<>>, <<>>)
Const == Node("T_Const", 0, <<>>, <<>>)
Var == Node("T_Var", 0, <<>>, <<>>)
CaseExpr == Node("T_CaseExpr", 0, <<>>, <<>>)
FuncExpr(f, a) == Node("T_FuncExpr", f, a, <<>>)
OpExpr(f, a) == Node("T_OpExpr", f, a, <<>>)
Aggref(g, a, flt) == Node("T_Aggref", g, a, flt)

FuncOids == {1, 2}
AggOid == 3
Oids == FuncOids \cup {AggOid}

Leaves == {Const, Var}

Scalars ==
    Leaves \cup {CaseExpr}
    \cup {FuncExpr(f, <<Var>>) : f \in FuncOids}
    \cup {OpExpr(2, <<Var, Const>>), OpExpr(1, <<FuncExpr(2, <<Var>>), Const>>),
          FuncExpr(1, <<FuncExpr(1, <<Var>>)>>), FuncExpr(2, <<CaseExpr>>)}

Filters == {<<>>, <<OpExpr(1, <<Var, Const>>)>>, <<OpExpr(2, <<Var, Const>>)>>}

AggArgs == {Var, FuncExpr(1, <<Var>>), FuncExpr(2, <<Var>>),
            OpExpr(1, <<FuncExpr(2, <<Var>>), Const>>), CaseExpr}

Aggrefs == {Aggref(AggOid, <<a>>, flt) : a \in AggArgs, flt \in Filters}
           \cup {Aggref(AggOid, <<>>, <<>>)}

ExprLists ==
    {<<>>} \cup {<<e>> : e \in Aggrefs \cup Scalars \cup {NullExpr}}
    \cup {<<Aggref(AggOid, <<FuncExpr(1, <<Var>>)>>, <<>>), e>> :
              e \in {Aggref(AggOid, <<FuncExpr(2, <<Var>>)>>, <<>>),
                     Aggref(AggOid, <<Var>>, <<>>), CaseExpr}}

(***************************************************************************)
(* The accelerator's opcode registry: lookup maps a function identity to   *)
(* an opcode (0 = unsupported), cost maps an opcode to its weight,         *)
(* par is what pgstrom_gpu_parallelism() returns.                          *)
(***************************************************************************)
Opcodes == {1, 2}

OpcodeCostTable == [o \in Opcodes |-> IF o = 1 THEN RInt(20) ELSE RZero]

Lookups == {l \in [Oids -> {0} \cup Opcodes] : \A o \in Oids : l[o] \in {0, IF o = 1 THEN 1 ELSE 2}}

Registries == {[lookup |-> l, cost |-> OpcodeCostTable, par |-> p] : l \in Lookups, p \in {0, 4}}

NoRegistry == [lookup |-> [o \in Oids |-> 0], cost |-> OpcodeCostTable, par |-> 0]


NULL == "NULL"
RESOLVED == "resolved"

(***************************************************************************)
(* Process state.                                                          *)
(*   pc                  "load" before _PG_init has run; then "ready" when  *)
(*                       the host may call, "returned" after a call       *)
(*   symtab              symbols dlsym can resolve in this process         *)
(*   registry            behaviour of the accelerator's entry points       *)
(*   gpu_bridge_enabled, strom_api, timescaledb_detected, pgstrom_detected *)
(*                       globals of gpu_bridge.c                           *)
(*   gucs_registered     the three GUCs are known to the host              *)
(*   gpu_transfer_cost_per_byte, gpu_launch_overhead, gpu_min_batch_rows   *)
(*                       GUC variables                                     *)
(*   calibration_done, calibrated_transfer_cost, calibrated_launch_overhead*)
(*                       statics of cost_model.c                           *)
(*   last                the last operation: its name, arguments, result,  *)
(*                       number of submit calls and of pallocs it made     *)
(***************************************************************************)
VARIABLES pc, symtab, registry, gpu_bridge_enabled, strom_api,
          timescaledb_detected, pgstrom_detected, gucs_registered,
          gpu_transfer_cost_per_byte, gpu_launch_overhead, gpu_min_batch_rows,
          calibration_done, calibrated_transfer_cost, calibrated_launch_overhead,
          last

discovery == <<gpu_bridge_enabled, strom_api, timescaledb_detected, pgstrom_detected>>
gucs == <<gucs_registered, gpu_transfer_cost_per_byte, gpu_launch_overhead, gpu_min_batch_rows>>
calibration == <<calibration_done, calibrated_transfer_cost, calibrated_launch_overhead>>
vars == <<pc, symtab, registry, discovery, gucs, calibration, last>>

NullApi == [xpu_command |-> NULL, device_func_lookup |-> NULL,
            opcode_cost |-> NULL, gpu_parallelism |-> NULL]

(***************************************************************************)
(* gpu_bridge.c: runtime discovery                                         *)
(***************************************************************************)
resolve_symbol(tab, symbol_name) == IF symbol_name \in tab THEN RESOLVED ELSE NULL

\* A discovery that leaves the pointers it found in place when one is missing.
discover_pgstrom_noreset(tab) ==
    LET api == [xpu_command |-> resolve_symbol(tab, "pgstrom_xpu_command"),
                device_func_lookup |-> resolve_symbol(tab, "pgstrom_device_func_lookup"),
                opcode_cost |-> resolve_symbol(tab, "pgstrom_opcode_cost"),
                gpu_parallelism |-> resolve_symbol(tab, "pgstrom_gpu_parallelism")]
    IN  [api |-> api, found |-> \A k \in DOMAIN api : api[k] # NULL]

discover_pgstrom(tab) ==
    LET api == [xpu_command |-> resolve_symbol(tab, "pgstrom_xpu_command"),
                device_func_lookup |-> resolve_symbol(tab, "pgstrom_device_func_lookup"),
                opcode_cost |-> resolve_symbol(tab, "pgstrom_opcode_cost"),
                gpu_parallelism |-> resolve_symbol(tab, "pgstrom_gpu_parallelism")]
    IN  IF api.xpu_command = NULL \/ api.device_func_lookup = NULL
           \/ api.opcode_cost = NULL \/ api.gpu_parallelism = NULL
        THEN [api |-> NullApi, found |-> FALSE]
        ELSE [api |-> api, found |-> TRUE]

discover_timescaledb(tab) == resolve_symbol(tab, HostSymbol) # NULL

\* An initialisation that enables the bridge on the accelerator probe alone.
PG_init_globals_no_host_probe(tab) ==
    LET d == discover_pgstrom(tab)
    IN  [enabled |-> d.found, api |-> d.api,
         ts |-> discover_timescaledb(tab), strom |-> d.found]

\* The globals _PG_init leaves behind, after register_gucs().
PG_init_globals(tab) ==
    IF ~discover_timescaledb(tab)
    THEN [enabled |-> FALSE, api |-> NullApi, ts |-> FALSE, strom |-> FALSE]
    ELSE LET d == discover_pgstrom(tab)
         IN  IF ~d.found
             THEN [enabled |-> FALSE, api |-> d.api, ts |-> TRUE, strom |-> FALSE]
             ELSE [enabled |-> TRUE, api |-> d.api, ts |-> TRUE, strom |-> TRUE]

\* A registration that forgets the third GUC.
register_gucs_two == {"timescaledb.gpu_transfer_cost_per_byte",
                      "timescaledb.gpu_launch_overhead"}

\* The GUCs DefineCustom*Variable registers; each gets boot value 0.
register_gucs == {"timescaledb.gpu_transfer_cost_per_byte",
                  "timescaledb.gpu_launch_overhead",
                  "timescaledb.gpu_min_batch_rows"}

(***************************************************************************)
(* gpu_dispatch.c: eligibility.  reg is the registry behind                *)
(* strom_api.device_func_lookup.                                           *)
(***************************************************************************)
RECURSIVE gpu_expr_is_eligible_agg_lookup(_, _)
\* An analyzer that also looks the aggregate's own function up in the registry.
gpu_expr_is_eligible_agg_lookup(reg, expr) ==
    IF ~gpu_bridge_enabled \/ strom_api.device_func_lookup = NULL THEN FALSE
    ELSE IF expr.tag = "NULL" THEN TRUE
    ELSE IF expr.tag \in {"T_Const", "T_Var"} THEN TRUE
    ELSE IF expr.tag \in {"T_FuncExpr", "T_OpExpr"}
    THEN IF reg.lookup[expr.id] <= 0 THEN FALSE
         ELSE \A i \in 1..Len(expr.args) : gpu_expr_is_eligible_agg_lookup(reg, expr.args[i])
    ELSE IF expr.tag = "T_Aggref"
    THEN /\ reg.lookup[expr.id] > 0
         /\ \A i \in 1..Len(expr.args) : gpu_expr_is_eligible_agg_lookup(reg, expr.args[i])
         /\ \A i \in 1..Len(expr.filter) : gpu_expr_is_eligible_agg_lookup(reg, expr.filter[i])
    ELSE FALSE

RECURSIVE gpu_expr_is_eligible_no_descent(_, _)
\* An analyzer that checks a function's own opcode but not its arguments.
gpu_expr_is_eligible_no_descent(reg, expr) ==
    IF ~gpu_bridge_enabled \/ strom_api.device_func_lookup = NULL THEN FALSE
    ELSE IF expr.tag = "NULL" THEN TRUE
    ELSE IF expr.tag \in {"T_Const", "T_Var"} THEN TRUE
    ELSE IF expr.tag \in {"T_FuncExpr", "T_OpExpr"}
    THEN reg.lookup[expr.id] > 0
    ELSE IF expr.tag = "T_Aggref"
    THEN /\ \A i \in 1..Len(expr.args) : gpu_expr_is_eligible_no_descent(reg, expr.args[i])
         /\ \A i \in 1..Len(expr.filter) : gpu_expr_is_eligible_no_descent(reg, expr.filter[i])
    ELSE FALSE

RECURSIVE gpu_expr_is_eligible(_, _)
gpu_expr_is_eligible(reg, expr) ==
    IF ~gpu_bridge_enabled \/ strom_api.device_func_lookup = NULL THEN FALSE
    ELSE IF expr.tag = "NULL" THEN TRUE
    ELSE IF expr.tag \in {"T_Const", "T_Var"} THEN TRUE
    ELSE IF expr.tag = "T_FuncExpr"
    THEN IF reg.lookup[expr.id] <= 0 THEN FALSE
         ELSE \A i \in 1..Len(expr.args) : gpu_expr_is_eligible(reg, expr.args[i])
    ELSE IF expr.tag = "T_OpExpr"
    THEN IF reg.lookup[expr.id] <= 0 THEN FALSE
         ELSE \A i \in 1..Len(expr.args) : gpu_expr_is_eligible(reg, expr.args[i])
    ELSE IF expr.tag = "T_Aggref"
    THEN /\ \A i \in 1..Len(expr.args) : gpu_expr_is_eligible(reg, expr.args[i])
         /\ \A i \in 1..Len(expr.filter) : gpu_expr_is_eligible(reg, expr.filter[i])
    ELSE FALSE

gpu_check_eligibility(reg, agg_exprs) ==
    IF ~gpu_bridge_enabled THEN FALSE
    ELSE IF agg_exprs = <<>> THEN FALSE
    ELSE \A i \in 1..Len(agg_exprs) : gpu_expr_is_eligible(reg, agg_exprs[i])

(***************************************************************************)
(* gpu_dispatch.c: dispatch.  rc is what strom_api.xpu_command returns     *)
(* when it is called.  The result names the outcome and the number of      *)
(* calls made to the entry point.                                          *)
(***************************************************************************)
\* A dispatcher that treats only negative return codes as failures.
gpu_dispatch_batch_neg_only(rc) ==
    IF ~gpu_bridge_enabled \/ strom_api.xpu_command = NULL
    THEN [ok |-> FALSE, submits |-> 0]
    ELSE IF rc < 0 THEN [ok |-> FALSE, submits |-> 1]
    ELSE [ok |-> TRUE, submits |-> 1]

gpu_dispatch_batch(rc) ==
    IF ~gpu_bridge_enabled \/ strom_api.xpu_command = NULL
    THEN [ok |-> FALSE, submits |-> 0]
    ELSE IF rc # 0 THEN [ok |-> FALSE, submits |-> 1]
    ELSE [ok |-> TRUE, submits |-> 1]

(***************************************************************************)
(* cost_model.c                                                            *)
(***************************************************************************)
\* A resolution that prefers the calibrated value over the tunable.
effective_transfer_cost_calibrated_first ==
    IF calibration_done /\ RPos(calibrated_transfer_cost) THEN calibrated_transfer_cost
    ELSE IF RPos(gpu_transfer_cost_per_byte) THEN gpu_transfer_cost_per_byte
    ELSE DEFAULT_TRANSFER_COST_PER_BYTE

effective_transfer_cost ==
    IF RPos(gpu_transfer_cost_per_byte) THEN gpu_transfer_cost_per_byte
    ELSE IF calibration_done /\ RPos(calibrated_transfer_cost) THEN calibrated_transfer_cost
    ELSE DEFAULT_TRANSFER_COST_PER_BYTE

effective_launch_overhead ==
    IF RPos(gpu_launch_overhead) THEN gpu_launch_overhead
    ELSE IF calibration_done /\ RPos(calibrated_launch_overhead) THEN calibrated_launch_overhead
    ELSE RInt(DEFAULT_LAUNCH_OVERHEAD)

effective_gpu_parallelism(reg) ==
    IF gpu_bridge_enabled /\ strom_api.gpu_parallelism # NULL /\ reg.par > 0
    THEN reg.par
    ELSE DEFAULT_GPU_PARALLELISM

RECURSIVE gpu_sum_opcode_costs(_, _)
RECURSIVE SumCosts(_, _, _)
\* cost += gpu_sum_opcode_costs(...) over the first n elements of a list
SumCosts(reg, list, n) ==
    IF n = 0 THEN RZero
    ELSE RAdd(SumCosts(reg, list, n - 1), gpu_sum_opcode_costs(reg, list[n]))

gpu_sum_opcode_costs(reg, expr) ==
    IF ~gpu_bridge_enabled \/ strom_api.device_func_lookup = NULL
       \/ strom_api.opcode_cost = NULL
    THEN RZero
    ELSE IF expr.tag = "NULL" THEN RZero
    ELSE IF expr.tag \in {"T_Const", "T_Var"} THEN RZero
    ELSE IF expr.tag \in {"T_FuncExpr", "T_OpExpr"}
    THEN LET opcode == reg.lookup[expr.id]
             own == IF opcode > 0 THEN reg.cost[opcode] ELSE RZero
         IN  RAdd(own, SumCosts(reg, expr.args, Len(expr.args)))
    ELSE IF expr.tag = "T_Aggref"
    THEN SumCosts(reg, expr.args, Len(expr.args))
    ELSE RZero

InvalidEstimate == [is_valid |-> FALSE, total_cost |-> RZero, transfer_cost |-> RZero,
                    launch_cost |-> RZero, compute_cost |-> RZero]

\* An estimate whose batch-size threshold rejects a batch of exactly the minimum size.
gpu_estimate_cost_strict_min(reg, agg_exprs, nrows, row_width) ==
    IF ~gpu_bridge_enabled \/ nrows <= 0 THEN InvalidEstimate
    ELSE IF gpu_min_batch_rows > 0 /\ nrows <= gpu_min_batch_rows THEN InvalidEstimate
    ELSE LET opcode_cost_sum == SumCosts(reg, agg_exprs, Len(agg_exprs))
         IN  IF ~RPos(opcode_cost_sum) THEN InvalidEstimate
             ELSE LET transfer_bytes == nrows * row_width * 2
                      transfer_cost == RMulInt(transfer_bytes, effective_transfer_cost)
                      launch_cost == effective_launch_overhead
                      parallelism == effective_gpu_parallelism(reg)
                      compute_cost == RDivInt(RMulInt(nrows, opcode_cost_sum), parallelism)
                  IN  [is_valid |-> TRUE,
                       total_cost |-> RAdd(RAdd(transfer_cost, launch_cost), compute_cost),
                       transfer_cost |-> transfer_cost,
                       launch_cost |-> launch_cost,
                       compute_cost |-> compute_cost]

\* An estimate whose compute cost is spread over the rows instead of summed.
gpu_estimate_cost_compute_per_row(reg, agg_exprs, nrows, row_width) ==
    IF ~gpu_bridge_enabled \/ nrows <= 0 THEN InvalidEstimate
    ELSE IF gpu_min_batch_rows > 0 /\ nrows < gpu_min_batch_rows THEN InvalidEstimate
    ELSE LET opcode_cost_sum == SumCosts(reg, agg_exprs, Len(agg_exprs))
         IN  IF ~RPos(opcode_cost_sum) THEN InvalidEstimate
             ELSE LET transfer_bytes == nrows * row_width * 2
                      transfer_cost == RMulInt(transfer_bytes, effective_transfer_cost)
                      launch_cost == effective_launch_overhead
                      parallelism == effective_gpu_parallelism(reg)
                      compute_cost == RDivInt(opcode_cost_sum, parallelism * nrows)
                  IN  [is_valid |-> TRUE,
                       total_cost |-> RAdd(RAdd(transfer_cost, launch_cost), compute_cost),
                       transfer_cost |-> transfer_cost,
                       launch_cost |-> launch_cost,
                       compute_cost |-> compute_cost]

gpu_estimate_cost(reg, agg_exprs, nrows, row_width) ==
    IF ~gpu_bridge_enabled \/ nrows <= 0 THEN InvalidEstimate
    ELSE IF gpu_min_batch_rows > 0 /\ nrows < gpu_min_batch_rows THEN InvalidEstimate
    ELSE LET opcode_cost_sum == SumCosts(reg, agg_exprs, Len(agg_exprs))
         IN  IF ~RPos(opcode_cost_sum) THEN InvalidEstimate
             ELSE LET transfer_bytes == nrows * row_width * 2
                      transfer_cost == RMulInt(transfer_bytes, effective_transfer_cost)
                      launch_cost == effective_launch_overhead
                      parallelism == effective_gpu_parallelism(reg)
                      compute_cost == RDivInt(RMulInt(nrows, opcode_cost_sum), parallelism)
                  IN  [is_valid |-> TRUE,
                       total_cost |-> RAdd(RAdd(transfer_cost, launch_cost), compute_cost),
                       transfer_cost |-> transfer_cost,
                       launch_cost |-> launch_cost,
                       compute_cost |-> compute_cost]

\* gpu_calibrate_transfer_cost: the statics it leaves behind
gpu_calibrate_transfer_cost(bytes_transferred, elapsed_us) ==
    IF bytes_transferred = 0 \/ ~RPos(elapsed_us)
    THEN [done |-> calibration_done, transfer |-> calibrated_transfer_cost]
    ELSE [done |-> TRUE, transfer |-> RDivInt(elapsed_us, bytes_transferred)]

\* gpu_calibrate_launch_overhead: the statics it leaves behind
gpu_calibrate_launch_overhead(elapsed_us, compute_cost) ==
    LET overhead == RSub(elapsed_us, compute_cost)
    IN  [done |-> TRUE, launch |-> IF RLe(overhead, RZero) THEN RInt(1) ELSE overhead]

(***************************************************************************)
(* arrow_kds.c: sizing pass, header and result decoding                    *)
(***************************************************************************)
MAXALIGN(len) == ((len + (MAXIMUM_ALIGNOF - 1)) \div MAXIMUM_ALIGNOF) * MAXIMUM_ALIGNOF

KDS_HEADER_SIZE(ncols) == MAXALIGN(KDS_HDR_COL_OFFSETS + ncols * 4)

validity_bitmap_bytes(nrows) == MAXALIGN(((nrows + 63) \div 64) * 8)

fixed_column_bytes(nrows, typlen) == validity_bitmap_bytes(nrows) + MAXALIGN(nrows * typlen)

\* A geometry region sized without its offset array.
geometry_column_bytes_no_offsets(nrows) ==
    validity_bitmap_bytes(nrows) + MAXALIGN(nrows * XPU_GEOM_POINT_Z_SIZE)

geometry_column_bytes(nrows) ==
    validity_bitmap_bytes(nrows) + MAXALIGN(nrows * 4) + MAXALIGN(nrows * XPU_GEOM_POINT_Z_SIZE)

KDSColumnType == {"KDS_COL_INT8", "KDS_COL_FLOAT8", "KDS_COL_FLOAT4",
                  "KDS_COL_INT4", "KDS_COL_INT2", "KDS_COL_GEOMETRY"}

kds_col_typlen(col_type) ==
    CASE col_type = "KDS_COL_INT8" -> 8
      [] col_type = "KDS_COL_FLOAT8" -> 8
      [] col_type = "KDS_COL_FLOAT4" -> 4
      [] col_type = "KDS_COL_INT4" -> 4
      [] col_type = "KDS_COL_INT2" -> 2
      [] col_type = "KDS_COL_GEOMETRY" -> -1
      [] OTHER -> -1

col_size(col_type, nrows) ==
    IF kds_col_typlen(col_type) > 0
    THEN fixed_column_bytes(nrows, kds_col_typlen(col_type))
    ELSE geometry_column_bytes(nrows)

\* Column offsets that start right after the offset table, without padding.
col_offset_unpadded(col_descs, nrows, i) ==
    KDS_HDR_COL_OFFSETS + Len(col_descs) * 4
        + (IF i = 1 THEN 0
           ELSE LET size(c) == MAXALIGN(col_size(col_descs[c], nrows))
                IN  IF i = 2 THEN size(1) ELSE size(1) + size(2))

RECURSIVE col_offset(_, _, _)
\* current_offset when the loop of arrow_batch_to_kds reaches column i (1-based)
col_offset(col_descs, nrows, i) ==
    IF i = 1 THEN KDS_HEADER_SIZE(Len(col_descs))
    ELSE col_offset(col_descs, nrows, i - 1) + MAXALIGN(col_size(col_descs[i - 1], nrows))

(***************************************************************************)
(* arrow_kds.c: the conversion pass.  Memory is a byte array; every store  *)
(* of the code is a store here, at the address the code computes.  A store *)
(* that reaches beyond the allocation is recorded in oob; the bytes of it  *)
(* that fall inside the allocation are stored.  Multi-byte integers are    *)
(* stored in the byte order of the platform (least significant first).     *)
(***************************************************************************)
\* The object representation with the most significant byte first.
be_bytes(v, n) == [k \in 1..n |-> (v \div (256 ^ (n - k))) % 256]

\* the object representation of an n-byte unsigned integer (n <= 4)
le_bytes(v, n) == [k \in 1..n |-> (v \div (256 ^ (k - 1))) % 256]

\* lo and hi bound the addresses stored to since the last unstored(mem):
\* every store went to an address a with lo <= a < hi.
palloc0(size) ==
    [len |-> size, bytes |-> [a \in 0..(size - 1) |-> 0], oob |-> FALSE,
     lo |-> INT_MAX, hi |-> 0]

unstored(mem) == [mem EXCEPT !.lo = INT_MAX, !.hi = 0]

memcpy(mem, dest, src) ==
    [len |-> mem.len,
     bytes |-> [a \in 0..(mem.len - 1) |->
                   IF a >= dest /\ a < dest + Len(src) THEN src[a - dest + 1]
                   ELSE mem.bytes[a]],
     oob |-> mem.oob \/ (Len(src) > 0 /\ dest + Len(src) > mem.len),
     lo |-> IF Len(src) > 0 /\ dest < mem.lo THEN dest ELSE mem.lo,
     hi |-> IF Len(src) > 0 /\ dest + Len(src) > mem.hi THEN dest + Len(src) ELSE mem.hi]

memset(mem, dest, c, n) == memcpy(mem, dest, [k \in 1..n |-> c])

\* the n bytes a load at addr finds
load(mem, addr, n) ==
    [k \in 1..n |-> IF addr + k - 1 < mem.len THEN mem.bytes[addr + k - 1] ELSE 0]

RECURSIVE BitAnd(_, _, _)
\* a & b on the low j bits of two bytes
BitAnd(a, b, j) ==
    IF j = 0 THEN 0
    ELSE ((a % 2) * (b % 2)) + 2 * BitAnd(a \div 2, b \div 2, j - 1)

\* A mask that keeps one bit more than the r low bits.
mask_bytes_inclusive(r) ==
    [k \in 1..8 |-> IF r + 1 >= 8 * k THEN 255
                    ELSE IF r + 1 <= 8 * (k - 1) THEN 0
                    ELSE (2 ^ (r + 1 - 8 * (k - 1))) - 1]

\* the object representation of (~0ULL) >> (64 - r), 0 < r < 64
mask_bytes(r) ==
    [k \in 1..8 |-> IF r >= 8 * k THEN 255
                    ELSE IF r <= 8 * (k - 1) THEN 0
                    ELSE (2 ^ (r - 8 * (k - 1))) - 1]

\* A buffer of an ArrowArray: null says the pointer is NULL.  buffers[0],
\* buffers[1], buffers[2] of the code are buffers[1], buffers[2], buffers[3].
NullBuffer == [null |-> TRUE, bytes |-> <<>>]

Buffer(b) == [null |-> FALSE, bytes |-> b]

\* A validity test that counts the bits of a byte from the most significant.
validity_bit_msb_first(validity, i) ==
    (validity.bytes[(i \div 8) + 1] \div (2 ^ (7 - (i % 8)))) % 2

\* ((word[i / 64] >> (i % 64)) & 1) on the bytes of the validity words
validity_bit(validity, i) == (validity.bytes[(i \div 8) + 1] \div (2 ^ (i % 8))) % 2

copy_validity_bitmap(mem, dest, arrow_validity, nrows) ==
    LET bitmap_len == validity_bitmap_bytes(nrows)
    IN  IF arrow_validity.null
        THEN LET filled == memset(mem, dest, 255, bitmap_len)
             IN  IF nrows % 64 # 0
                 THEN LET last_word == dest + (nrows \div 64) * 8
                          old == load(filled, last_word, 8)
                          mask == mask_bytes(nrows % 64)
                      IN  memcpy(filled, last_word, [k \in 1..8 |-> BitAnd(old[k], mask[k], 8)])
                 ELSE filled
        ELSE memcpy(mem, dest, SubSeq(arrow_validity.bytes, 1, bitmap_len))

convert_fixed_column(mem, dest, arrow, nrows, typlen) ==
    LET m1 == copy_validity_bitmap(mem, dest, arrow.buffers[1], nrows)
        data_dest == dest + validity_bitmap_bytes(nrows)
    IN  IF ~arrow.buffers[2].null
        THEN memcpy(m1, data_dest, SubSeq(arrow.buffers[2].bytes, 1, nrows * typlen))
        ELSE memset(m1, data_dest, 0, nrows * typlen)

\* const uint32 *arrow_offsets: the elements of the offsets buffer
OffsetsBuffer(v) == [null |-> FALSE, values |-> v]

NullOffsets == [null |-> TRUE, values |-> <<>>]

\* Stores the fields at dest + offset and returns the final offset.
build_xpu_geometry_header(mem, dest, srid, x, y, z) ==
    LET o_type == 0
        m1 == memcpy(mem, dest + o_type, le_bytes(POINTTYPE, 4))
        o_flags == o_type + 4
        m2 == memcpy(m1, dest + o_flags, le_bytes(GEOM_FLAG_Z, 2))
        o_pad == o_flags + 2
        o_srid == o_pad + 2
        m3 == memcpy(m2, dest + o_srid, le_bytes(srid, 4))
        o_nitems == o_srid + 4
        m4 == memcpy(m3, dest + o_nitems, le_bytes(1, 4))
        o_rawsize == o_nitems + 4
        m5 == memcpy(m4, dest + o_rawsize, le_bytes(3 * 8, 4))
        o_x == o_rawsize + 4
        m6 == memcpy(m5, dest + o_x, x)
        o_y == o_x + 8
        m7 == memcpy(m6, dest + o_y, y)
        o_z == o_y + 8
        m8 == memcpy(m7, dest + o_z, z)
    IN  [mem |-> m8, written |-> o_z + 8]

RECURSIVE geometry_rows(_, _, _, _, _, _)
\* The row loop of convert_geometry_column from row i on, and the store of
\* offsets[nrows] after it; written is the payload cursor at the end.
geometry_rows(mem, dest, arrow, nrows, i, current_offset) ==
    LET bitmap_size == validity_bitmap_bytes(nrows)
        offsets == dest + bitmap_size
        data_area == offsets + (nrows + 1) * 4
        arrow_offsets == arrow.buffers[2]
        arrow_data == arrow.buffers[3]
    IN  IF i >= nrows
        THEN [mem |-> memcpy(mem, offsets + nrows * 4, le_bytes(current_offset, 4)),
              written |-> current_offset]
        ELSE LET m1 == memcpy(mem, offsets + i * 4, le_bytes(current_offset, 4))
             IN  IF ~arrow.buffers[1].null /\ validity_bit(arrow.buffers[1], i) = 0
                 THEN geometry_rows(m1, dest, arrow, nrows, i + 1, current_offset)
                 ELSE IF arrow_offsets.null \/ arrow_data.null
                 THEN geometry_rows(m1, dest, arrow, nrows, i + 1, current_offset)
                 ELSE LET wkb_start == arrow_offsets.values[i + 1]
                          wkb_len == arrow_offsets.values[i + 2] - wkb_start
                          wkb(k, n) == SubSeq(arrow_data.bytes, wkb_start + k + 1, wkb_start + k + n)
                      IN  IF wkb_len >= WKB_POINT_Z_MIN
                          THEN LET h == build_xpu_geometry_header(
                                            m1, data_area + current_offset, 4978,
                                            wkb(5, 8), wkb(13, 8), wkb(21, 8))
                               IN  geometry_rows(h.mem, dest, arrow, nrows, i + 1,
                                                 current_offset + h.written)
                          ELSE geometry_rows(m1, dest, arrow, nrows, i + 1, current_offset)

convert_geometry_column(mem, dest, arrow, nrows) ==
    LET m1 == copy_validity_bitmap(mem, dest, arrow.buffers[1], nrows)
    IN  geometry_rows(m1, dest, arrow, nrows, 0, 0)

RECURSIVE convert_columns(_, _, _, _, _)
\* The column loop of arrow_batch_to_kds over columns 1..i; payload[c] is the
\* number of payload bytes the conversion of column c emitted, stores[c] the
\* bounds <<lo, hi>> of the addresses it stored to.
convert_columns(mem, arrow_arrays, col_descs, nrows, i) ==
    IF i = 0 THEN [mem |-> mem, payload |-> <<>>, stores |-> <<>>]
    ELSE LET before == convert_columns(mem, arrow_arrays, col_descs, nrows, i - 1)
             current_offset == col_offset(col_descs, nrows, i)
             m1 == unstored(memcpy(before.mem, KDS_HDR_COL_OFFSETS + (i - 1) * 4,
                                   le_bytes(current_offset, 4)))
             typlen == kds_col_typlen(col_descs[i])
         IN  IF typlen > 0
             THEN LET f == convert_fixed_column(m1, current_offset, arrow_arrays[i],
                                                nrows, typlen)
                  IN  [mem |-> f, payload |-> Append(before.payload, 0),
                       stores |-> Append(before.stores, <<f.lo, f.hi>>)]
             ELSE LET g == convert_geometry_column(m1, current_offset, arrow_arrays[i], nrows)
                  IN  [mem |-> g.mem, payload |-> Append(before.payload, g.written),
                       stores |-> Append(before.stores, <<g.mem.lo, g.mem.hi>>)]

\* The KDSBatch and its buffer, the number of pallocs, whether a store went
\* beyond the buffer, and per column the payload bytes emitted and the bounds
\* of the stores of its conversion.
arrow_batch_to_kds(arrow_arrays, col_descs, nrows) ==
    LET ncols == Len(col_descs)
        total_size == col_offset(col_descs, nrows, ncols + 1)
        m0 == palloc0(total_size)
        m1 == memcpy(m0, KDS_HDR_LENGTH_OFF, le_bytes(total_size, 4))
        m2 == memcpy(m1, KDS_HDR_FORMAT_OFF, le_bytes(KDS_FORMAT_COLUMN, 2))
        m3 == memcpy(m2, KDS_HDR_NCOLS_OFF, le_bytes(ncols, 2))
        m4 == memcpy(m3, KDS_HDR_NROOMS_OFF, le_bytes(nrows, 4))
        m5 == memcpy(m4, KDS_HDR_NITEMS_OFF, le_bytes(nrows, 4))
        c == convert_columns(m5, arrow_arrays, col_descs, nrows, ncols)
    IN  [batch |-> [buffer |-> c.mem.bytes, buffer_len |-> total_size,
                    ncols |-> ncols, nrows |-> nrows],
         pallocs |-> 3,
         oob |-> c.mem.oob,
         payload |-> c.payload,
         stores |-> c.stores]

(***************************************************************************)
(* The sizing pass in the arithmetic of the machine.  A size_t is four     *)
(* 16-bit limbs, least significant first, so that every operation is taken *)
(* modulo 2^64; an int is a signed 32-bit value.                           *)
(***************************************************************************)
LIMB == 2 ^ 16

RECURSIVE carry(_, _)
\* Propagates carries through the limbs and drops the carry out of the last.
carry(s, c) ==
    IF s = <<>> THEN <<>>
    ELSE <<(Head(s) + c) % LIMB>> \o carry(Tail(s), (Head(s) + c) \div LIMB)

\* (size_t) n for an int n, negative values included
size_t(n) == carry(<<n, 0, 0, 0>>, 0)

size_add(a, b) == carry([i \in 1..4 |-> a[i] + b[i]], 0)

\* a * k for a small k
size_mul(a, k) == carry([i \in 1..4 |-> a[i] * k], 0)

\* TYPEALIGN(MAXIMUM_ALIGNOF, a) on a size_t
size_MAXALIGN(a) ==
    LET r == size_add(a, size_t(MAXIMUM_ALIGNOF - 1))
    IN  [r EXCEPT ![1] = (r[1] \div MAXIMUM_ALIGNOF) * MAXIMUM_ALIGNOF]

\* (uint32) a
uint32(a) == <<a[1], a[2], 0, 0>>

\* a / b of C on ints, b > 0: the quotient is truncated toward zero
int_div(a, b) == IF a >= 0 THEN a \div b ELSE (a + (b - 1)) \div b

\* The outcomes of (nrows + 63) / 64 on ints.  The sum overflows when
\* nrows > INT_MAX - 63, which is undefined: the build may wrap it, may have
\* widened the sum (the quotient is then the exact one), or may trap.
validity_words(nrows) ==
    IF nrows <= INT_MAX - 63
    THEN {[trap |-> FALSE, value |-> (nrows + 63) \div 64]}
    ELSE {[trap |-> FALSE,
           value |-> int_div((nrows - INT_MAX - 1) + (63 - INT_MAX - 1), 64)],
          [trap |-> FALSE, value |-> (nrows \div 64) + (((nrows % 64) + 63) \div 64)],
          [trap |-> TRUE, value |-> 0]}

\* validity_bitmap_bytes(nrows) as a size_t, given the value of the int
\* expression (nrows + 63) / 64
size_validity_bitmap_bytes(words) == size_MAXALIGN(size_mul(size_t(words), 8))

size_col_bytes(col_type, nrows, words) ==
    IF kds_col_typlen(col_type) > 0
    THEN size_add(size_validity_bitmap_bytes(words),
                  size_MAXALIGN(size_mul(size_t(nrows), kds_col_typlen(col_type))))
    ELSE size_add(size_add(size_validity_bitmap_bytes(words),
                           size_MAXALIGN(size_mul(size_t(nrows), 4))),
                  size_MAXALIGN(size_mul(size_t(nrows), XPU_GEOM_POINT_Z_SIZE)))

RECURSIVE size_col_offset(_, _, _, _)
\* current_offset before column i; for i = ncols + 1 it is total_size
size_col_offset(col_descs, nrows, words, i) ==
    IF i = 1 THEN size_MAXALIGN(size_t(KDS_HDR_COL_OFFSETS + Len(col_descs) * 4))
    ELSE size_add(size_col_offset(col_descs, nrows, words, i - 1),
                  size_MAXALIGN(size_col_bytes(col_descs[i - 1], nrows, words)))

\* What arrow_batch_to_kds computes before it converts the columns: the
\* bitmap size, total_size, and the values it casts for the header.
kds_sizes(col_descs, nrows, words) ==
    LET ncols == Len(col_descs)
        total_size == size_col_offset(col_descs, nrows, words, ncols + 1)
    IN  [words |-> words,
         bitmap_bytes |-> size_validity_bitmap_bytes(words),
         total_size |-> total_size,
         length_val |-> uint32(total_size),
         col_off |-> [i \in 1..ncols |-> uint32(size_col_offset(col_descs, nrows, words, i))]]

\* A decode whose length test also rejects a buffer of exactly the needed size.
kds_result_to_partial_agg_strict(result_buf, result_len, num_aggs) ==
    IF result_buf.null \/ result_len <= num_aggs * (SIZEOF_DATUM + SIZEOF_BOOL)
    THEN [out_values |-> [i \in 1..num_aggs |-> [k \in 1..SIZEOF_DATUM |-> 0]],
          out_nulls |-> [i \in 1..num_aggs |-> TRUE]]
    ELSE [out_values |-> [i \in 1..num_aggs |->
                             SubSeq(result_buf.bytes, (i - 1) * SIZEOF_DATUM + 1,
                                    i * SIZEOF_DATUM)],
          out_nulls |-> [i \in 1..num_aggs |->
                            result_buf.bytes[num_aggs * SIZEOF_DATUM + i] # 0]]

\* result_buf is a buffer of bytes (or NULL); a Datum is its SIZEOF_DATUM
\* bytes; values = (const Datum *) result_buf, nulls = (const bool *)
\* ((const char *) result_buf + num_aggs * sizeof(Datum)).
kds_result_to_partial_agg(result_buf, result_len, num_aggs) ==
    IF result_buf.null \/ result_len < num_aggs * (SIZEOF_DATUM + SIZEOF_BOOL)
    THEN [out_values |-> [i \in 1..num_aggs |-> [k \in 1..SIZEOF_DATUM |-> 0]],
          out_nulls |-> [i \in 1..num_aggs |-> TRUE]]
    ELSE [out_values |-> [i \in 1..num_aggs |->
                             SubSeq(result_buf.bytes, (i - 1) * SIZEOF_DATUM + 1,
                                    i * SIZEOF_DATUM)],
          out_nulls |-> [i \in 1..num_aggs |->
                            result_buf.bytes[num_aggs * SIZEOF_DATUM + i] # 0]]

(***************************************************************************)
(* Inputs of the operations.                                               *)
(***************************************************************************)
NRowsInputs == (-1)..MaxRows

\* the batch sizes of the documented small-batch and large-batch scenarios
ScenarioRows == {500, 100000}

RowWidthInputs == {0, 64}

TransferCostSettings == {RZero, <<1, 100>>}

LaunchOverheadSettings == {RZero, RInt(50)}

MinBatchRowsSettings == {0, 2, INT_MAX}

RcInputs == (-1)..MaxRc

ColDescInputs == {<<"KDS_COL_FLOAT8">>, <<"KDS_COL_GEOMETRY">>,
                  <<"KDS_COL_INT8", "KDS_COL_INT2">>, <<"KDS_COL_FLOAT4", "KDS_COL_GEOMETRY">>}

\* A validity word with exactly the bits of the set bits on.
validity_word(bits) ==
    LET w(k, j) == IF (8 * (k - 1) + j) \in bits THEN 2 ^ j ELSE 0
    IN  [k \in 1..8 |-> w(k, 0) + w(k, 1) + w(k, 2) + w(k, 3)
                        + w(k, 4) + w(k, 5) + w(k, 6) + w(k, 7)]

\* No validity buffer, or one word: all rows valid, all but the first, or none;
\* the padding bits at positions >= nrows all zero or some of them set.
ValidityInputs(nrows) ==
    {NullBuffer}
    \cup {Buffer(validity_word(v \cup p)) :
             v \in {0..(nrows - 1), 1..(nrows - 1), {}}, p \in {{}, {nrows, 63}}}

\* The values of a fixed-width column: every byte differs from its neighbours.
FixedData(nrows, typlen) == [k \in 1..(nrows * typlen) |-> (17 * k + 3) % 256]

\* A well-known-binary record of len bytes for row i: byte order, type
\* (POINT Z), then coordinate bytes that differ by row and position.
WkbRecord(i, len) ==
    [k \in 1..len |-> IF k = 1 THEN 1
                      ELSE IF k <= 5 THEN le_bytes(1001, 4)[k - 1]
                      ELSE (40 * i + k) % 256]

\* Payload lengths per row: all points, a longer record first, a short
\* second record, all short.
WkbLengths(nrows) ==
    {[i \in 1..nrows |-> 29], [i \in 1..nrows |-> IF i = 1 THEN 33 ELSE 29],
     [i \in 1..nrows |-> IF i = 2 THEN 5 ELSE 29], [i \in 1..nrows |-> 5]}

RECURSIVE WkbData(_, _)
WkbData(lens, n) ==
    IF n = 0 THEN <<>> ELSE WkbData(lens, n - 1) \o WkbRecord(n, lens[n])

RECURSIVE WkbOffset(_, _)
WkbOffset(lens, n) == IF n = 0 THEN 0 ELSE WkbOffset(lens, n - 1) + lens[n]

ArrowArrays(col_type, nrows) ==
    IF kds_col_typlen(col_type) > 0
    THEN {[buffers |-> <<v, d, NullBuffer>>] :
             v \in ValidityInputs(nrows),
             d \in {NullBuffer, Buffer(FixedData(nrows, kds_col_typlen(col_type)))}}
    ELSE {[buffers |-> <<v, g[1], g[2]>>] :
             v \in ValidityInputs(nrows),
             g \in {<<NullOffsets, NullBuffer>>}
                   \cup {<<OffsetsBuffer([i \in 1..(nrows + 1) |-> WkbOffset(lens, i - 1)]),
                           Buffer(WkbData(lens, nrows))>> : lens \in WkbLengths(nrows)}}

\* Arrays none of whose buffers is present.
NullArrays(col_descs) ==
    [i \in 1..Len(col_descs) |->
        [buffers |-> <<NullBuffer,
                       IF kds_col_typlen(col_descs[i]) > 0 THEN NullBuffer ELSE NullOffsets,
                       NullBuffer>>]]

BatchesOf(col_descs, nrows) ==
    IF Len(col_descs) = 1
    THEN {[arrow_arrays |-> <<a>>, col_descs |-> col_descs, nrows |-> nrows] :
             a \in ArrowArrays(col_descs[1], nrows)}
    ELSE {[arrow_arrays |-> <<a, b>>, col_descs |-> col_descs, nrows |-> nrows] :
             a \in ArrowArrays(col_descs[1], nrows), b \in ArrowArrays(col_descs[2], nrows)}

\* Batches of one two-byte column that fill one validity word exactly, or
\* one word and one bit of the next; no validity buffer is supplied.
WordBatches ==
    {[arrow_arrays |-> <<[buffers |-> <<NullBuffer, d, NullBuffer>>]>>,
      col_descs |-> <<"KDS_COL_INT2">>, nrows |-> n] :
        n \in {WordRows, WordRows + 1},
        d \in {NullBuffer, Buffer(FixedData(2 * WordRows, 2))}}

\* Every batch of the bounded input space.
ArrowBatches ==
    UNION {BatchesOf(d, n) : d \in ColDescInputs, n \in 0..MaxRows} \cup WordBatches

\* Batches of one column and at most one row, without buffers.
EmptyArrowBatches ==
    {[arrow_arrays |-> NullArrays(d), col_descs |-> d, nrows |-> n] :
        d \in {<<"KDS_COL_FLOAT8">>, <<"KDS_COL_GEOMETRY">>}, n \in {0, 1}}

\* A result buffer of len bytes: NULL, or value bytes that differ by position
\* followed by null flags (none set, or the first only), then padding.
ResultBufs(n, len) ==
    {NullBuffer}
    \cup {Buffer([k \in 1..len |->
                     IF k <= n * SIZEOF_DATUM THEN (13 * k + 5) % 256
                     ELSE IF k <= n * SIZEOF_DATUM + n THEN fl[k - n * SIZEOF_DATUM]
                     ELSE 170]) :
             fl \in {[i \in 1..n |-> 0], [i \in 1..n |-> IF i = 1 THEN 1 ELSE 0]}}

NoOp == [op |-> "none", args |-> <<>>, ret |-> <<>>, submits |-> 0, pallocs |-> 0]

Done(name, a, r, nsub, npalloc) ==
    [op |-> name, args |-> a, ret |-> r, submits |-> nsub, pallocs |-> npalloc]

(***************************************************************************)
(* Initial state: the library is mapped, _PG_init has not run; the C       *)
(* initialisers of the globals are in effect.  The registry is what the    *)
(* accelerator's entry points answer; the bridge can reach them only when  *)
(* all five symbols resolve, so only then does it vary.                    *)
(***************************************************************************)
Init ==
    /\ pc = "load"
    /\ symtab \in SUBSET Symbols
    /\ registry \in IF Symbols \subseteq symtab THEN Registries ELSE {NoRegistry}
    /\ gpu_bridge_enabled = FALSE
    /\ strom_api = NullApi
    /\ timescaledb_detected = FALSE
    /\ pgstrom_detected = FALSE
    /\ gucs_registered = {}
    /\ gpu_transfer_cost_per_byte = RZero
    /\ gpu_launch_overhead = RZero
    /\ gpu_min_batch_rows = 0
    /\ calibration_done = FALSE
    /\ calibrated_transfer_cost = RZero
    /\ calibrated_launch_overhead = RZero
    /\ last = NoOp

(***************************************************************************)
(* Operations.                                                             *)
(***************************************************************************)
PG_init ==
    /\ pc = "load"
    /\ pc' = "returned"
    /\ gucs_registered' = register_gucs
    /\ gpu_transfer_cost_per_byte' = RZero
    /\ gpu_launch_overhead' = RZero
    /\ gpu_min_batch_rows' = 0
    /\ LET g == PG_init_globals(symtab)
       IN  /\ gpu_bridge_enabled' = g.enabled
           /\ strom_api' = g.api
           /\ timescaledb_detected' = g.ts
           /\ pgstrom_detected' = g.strom
    /\ last' = Done("_PG_init", <<>>, <<>>, 0, 0)
    /\ UNCHANGED <<symtab, registry, calibration>>

\* SET / RESET of a GUC by the host; an unregistered name is an error.
SetTransferCost ==
    /\ pc = "ready"
    /\ pc' = "returned"
    /\ \E v \in TransferCostSettings :
          IF "timescaledb.gpu_transfer_cost_per_byte" \in gucs_registered
          THEN /\ gpu_transfer_cost_per_byte' = v
               /\ last' = Done("SET", <<"timescaledb.gpu_transfer_cost_per_byte", v>>, "ok", 0, 0)
          ELSE /\ UNCHANGED gpu_transfer_cost_per_byte
               /\ last' = Done("SET", <<"timescaledb.gpu_transfer_cost_per_byte", v>>, "error", 0, 0)
    /\ UNCHANGED <<symtab, registry, discovery, gucs_registered, gpu_launch_overhead,
                   gpu_min_batch_rows, calibration>>

SetLaunchOverhead ==
    /\ pc = "ready"
    /\ pc' = "returned"
    /\ \E v \in LaunchOverheadSettings :
          IF "timescaledb.gpu_launch_overhead" \in gucs_registered
          THEN /\ gpu_launch_overhead' = v
               /\ last' = Done("SET", <<"timescaledb.gpu_launch_overhead", v>>, "ok", 0, 0)
          ELSE /\ UNCHANGED gpu_launch_overhead
               /\ last' = Done("SET", <<"timescaledb.gpu_launch_overhead", v>>, "error", 0, 0)
    /\ UNCHANGED <<symtab, registry, discovery, gucs_registered,
                   gpu_transfer_cost_per_byte, gpu_min_batch_rows, calibration>>

SetMinBatchRows ==
    /\ pc = "ready"
    /\ pc' = "returned"
    /\ \E v \in MinBatchRowsSettings :
          IF "timescaledb.gpu_min_batch_rows" \in gucs_registered
          THEN /\ gpu_min_batch_rows' = v
               /\ last' = Done("SET", <<"timescaledb.gpu_min_batch_rows", v>>, "ok", 0, 0)
          ELSE /\ UNCHANGED gpu_min_batch_rows
               /\ last' = Done("SET", <<"timescaledb.gpu_min_batch_rows", v>>, "error", 0, 0)
    /\ UNCHANGED <<symtab, registry, discovery, gucs_registered,
                   gpu_transfer_cost_per_byte, gpu_launch_overhead, calibration>>

Status ==
    /\ pc = "ready"
    /\ pc' = "returned"
    /\ last' = Done("gpu_bridge_status", <<>>,
                    [enabled |-> gpu_bridge_enabled,
                     pgstrom_detected |-> pgstrom_detected,
                     timescaledb_detected |-> timescaledb_detected,
                     transfer_cost_per_byte |-> gpu_transfer_cost_per_byte,
                     launch_overhead |-> gpu_launch_overhead,
                     min_batch_rows |-> gpu_min_batch_rows], 0, 0)
    /\ UNCHANGED <<symtab, registry, discovery, gucs, calibration>>

CheckEligibility ==
    /\ pc = "ready"
    /\ pc' = "returned"
    /\ \E exprs \in ExprLists :
          last' = Done("gpu_check_eligibility", <<exprs>>,
                       gpu_check_eligibility(registry, exprs), 0, 0)
    /\ UNCHANGED <<symtab, registry, discovery, gucs, calibration>>

\* The expression lists that are costed: no expression, unsupported and
\* absent nodes, functions of weight 20 and of weight 0, bare and nested,
\* in aggregate arguments and in aggregate filters, one and two aggregates.
CostExprLists ==
    {<<>>, <<NullExpr>>, <<CaseExpr>>, <<FuncExpr(1, <<Var>>)>>,
     <<Aggref(AggOid, <<Var>>, <<>>)>>,
     <<Aggref(AggOid, <<FuncExpr(1, <<Var>>)>>, <<>>)>>,
     <<Aggref(AggOid, <<OpExpr(1, <<FuncExpr(2, <<Var>>), Const>>)>>, <<>>)>>,
     <<Aggref(AggOid, <<FuncExpr(2, <<Var>>)>>, <<OpExpr(1, <<Var, Const>>)>>)>>,
     <<Aggref(AggOid, <<FuncExpr(1, <<Var>>)>>, <<>>), Aggref(AggOid, <<FuncExpr(2, <<Var>>)>>, <<>>)>>,
     <<Aggref(AggOid, <<FuncExpr(1, <<Var>>)>>, <<>>), CaseExpr>>}

\* gpu_estimate_cost on a batch size of the set rows
EstimateOf(rows) ==
    /\ pc = "ready"
    /\ pc' = "returned"
    /\ \E exprs \in CostExprLists, nrows \in rows, row_width \in RowWidthInputs :
          last' = Done("gpu_estimate_cost", <<exprs, nrows, row_width>>,
                       gpu_estimate_cost(registry, exprs, nrows, row_width), 0, 0)
    /\ UNCHANGED <<symtab, registry, discovery, gucs, calibration>>

EstimateCost == EstimateOf(NRowsInputs)

CalibrateTransferCost ==
    /\ pc = "ready"
    /\ pc' = "returned"
    /\ \E bytes \in {0, 1000000}, elapsed \in {RZero, RInt(1000)} :
          LET c == gpu_calibrate_transfer_cost(bytes, elapsed)
          IN  /\ calibration_done' = c.done
              /\ calibrated_transfer_cost' = c.transfer
              /\ last' = Done("gpu_calibrate_transfer_cost", <<bytes, elapsed>>, <<>>, 0, 0)
    /\ UNCHANGED <<symtab, registry, discovery, gucs, calibrated_launch_overhead>>

CalibrateLaunchOverhead ==
    /\ pc = "ready"
    /\ pc' = "returned"
    /\ \E elapsed \in {RInt(1000)}, compute \in {<<1999, 2>>, RInt(2000)} :
          LET c == gpu_calibrate_launch_overhead(elapsed, compute)
          IN  /\ calibration_done' = c.done
              /\ calibrated_launch_overhead' = c.launch
              /\ last' = Done("gpu_calibrate_launch_overhead", <<elapsed, compute>>, <<>>, 0, 0)
    /\ UNCHANGED <<symtab, registry, discovery, gucs, calibrated_transfer_cost>>

\* arrow_batch_to_kds on a batch of the set inputs.  A store beyond the
\* buffer is undefined behaviour: the call either returns with the buffer as
\* the stores inside it left it, or the process is brought down.
EncodeOf(inputs) ==
    /\ pc = "ready"
    /\ \E b \in inputs :
          LET e == arrow_batch_to_kds(b.arrow_arrays, b.col_descs, b.nrows)
              a == <<b.arrow_arrays, b.col_descs, b.nrows>>
          IN  \/ /\ pc' = "returned"
                 /\ last' = Done("arrow_batch_to_kds", a, e.batch, 0, e.pallocs)
              \/ /\ e.oob
                 /\ pc' = "aborted"
                 /\ last' = Done("arrow_batch_to_kds", a, "aborted", 0, e.pallocs)
    /\ UNCHANGED <<symtab, registry, discovery, gucs, calibration>>

Encode == EncodeOf(EmptyArrowBatches)

Decode ==
    /\ pc = "ready"
    /\ pc' = "returned"
    /\ \E num_aggs \in 0..MaxAggs :
         \E result_len \in {0, num_aggs * 9 - 1, num_aggs * 9, num_aggs * 9 + 8} \cap Nat :
           \E result_buf \in ResultBufs(num_aggs, result_len) :
              last' = Done("kds_result_to_partial_agg", <<result_buf, result_len, num_aggs>>,
                           kds_result_to_partial_agg(result_buf, result_len, num_aggs), 0, 0)
    /\ UNCHANGED <<symtab, registry, discovery, gucs, calibration>>

Dispatch ==
    /\ pc = "ready"
    /\ pc' = "returned"
    /\ \E rc \in RcInputs :
          LET d == gpu_dispatch_batch(rc)
          IN  last' = Done("gpu_dispatch_batch", <<rc>>, d.ok, d.submits, 0)
    /\ UNCHANGED <<symtab, registry, discovery, gucs, calibration>>

(***************************************************************************)
(* The grouping-policy wrapper: check, estimate, encode, dispatch, decode, *)
(* with delegation to the wrapped CPU policy at every rejection.  The host *)
(* supplies the cost of its CPU path (cpu_cost); alloc_ok says whether the *)
(* encoder got its buffer; rc is the accelerator's answer if it is asked.  *)
(***************************************************************************)
WrapperExprLists ==
    {<<>>,
     <<Aggref(AggOid, <<Var>>, <<>>)>>,
     <<Aggref(AggOid, <<FuncExpr(1, <<Var>>)>>, <<>>)>>,
     <<Aggref(AggOid, <<FuncExpr(2, <<Var>>)>>, <<OpExpr(1, <<Var, Const>>)>>)>>,
     <<Aggref(AggOid, <<FuncExpr(1, <<Var>>)>>, <<>>), Aggref(AggOid, <<FuncExpr(2, <<Var>>)>>, <<>>)>>,
     <<Aggref(AggOid, <<FuncExpr(1, <<Var>>)>>, <<>>), CaseExpr>>}

CpuCostInputs == {RZero, RInt(1000)}

Delegated(batch, eligible, est_valid, preferred, encoded, submits) ==
    [source |-> "cpu", cpu_batch |-> batch, eligible |-> eligible, est_valid |-> est_valid,
     preferred |-> preferred, encoded |-> encoded, submits |-> submits,
     pallocs |-> IF encoded THEN 3 ELSE 0]

grouping_policy_wrapper(batch, exprs, row_width, cpu_cost, alloc_ok, rc) ==
    IF ~gpu_check_eligibility(registry, exprs)
    THEN Delegated(batch, FALSE, FALSE, FALSE, FALSE, 0)
    ELSE LET est == gpu_estimate_cost(registry, exprs, batch.nrows, row_width)
         IN  IF ~est.is_valid
             THEN Delegated(batch, TRUE, FALSE, FALSE, FALSE, 0)
             ELSE IF ~RLt(est.total_cost, cpu_cost)
             THEN Delegated(batch, TRUE, TRUE, FALSE, FALSE, 0)
             ELSE IF ~alloc_ok
             THEN Delegated(batch, TRUE, TRUE, TRUE, FALSE, 0)
             ELSE LET d == gpu_dispatch_batch(rc)
                  IN  IF ~d.ok
                      THEN Delegated(batch, TRUE, TRUE, TRUE, TRUE, d.submits)
                      ELSE [source |-> "gpu", cpu_batch |-> batch, eligible |-> TRUE,
                            est_valid |-> TRUE, preferred |-> TRUE, encoded |-> TRUE,
                            submits |-> d.submits, pallocs |-> 3]

Batch ==
    /\ pc = "ready"
    /\ pc' = "returned"
    /\ \E exprs \in WrapperExprLists, nrows \in {0, MaxRows}, cpu_cost \in CpuCostInputs,
          alloc_ok \in BOOLEAN, rc \in RcInputs :
          LET batch == [col_descs |-> <<"KDS_COL_FLOAT8">>, nrows |-> nrows]
              w == grouping_policy_wrapper(batch, exprs, 64, cpu_cost, alloc_ok, rc)
          IN  last' = Done("batch", <<batch, exprs, cpu_cost, alloc_ok, rc>>, w,
                           w.submits, w.pallocs)
    /\ UNCHANGED <<symtab, registry, discovery, gucs, calibration>>

\* Control is back in the host, which is free to make its next call.
HostResume ==
    /\ pc = "returned"
    /\ pc' = "ready"
    /\ last' = NoOp
    /\ UNCHANGED <<symtab, registry, discovery, gucs, calibration>>

Next ==
    \/ PG_init
    \/ HostResume
    \/ SetTransferCost
    \/ SetLaunchOverhead
    \/ SetMinBatchRows
    \/ Status
    \/ CheckEligibility
    \/ EstimateCost
    \/ CalibrateTransferCost
    \/ CalibrateLaunchOverhead
    \/ Encode
    \/ Decode
    \/ Dispatch
    \/ Batch

Spec == Init /\ [][Next]_vars

(***************************************************************************)
(* The transcoder on its own: arrow_batch_to_kds reads no global, so its   *)
(* whole bounded input space is explored from one initial state.           *)
(***************************************************************************)
EncodeBatch == EncodeOf(ArrowBatches)

\* Row counts up to INT_MAX: small ones, those at which a column reaches
\* 2^31 and 2^32 bytes, and those around INT_MAX - 63.
LargeRowInputs ==
    {1, MaxRows, 2 ^ 28, 2 ^ 29, INT_MAX - 63, INT_MAX - 62, INT_MAX}

\* The sizing pass of arrow_batch_to_kds (the sizes it computes and the
\* values it casts for the header) at row counts up to INT_MAX.
SizeBatch ==
    /\ pc = "ready"
    /\ \E col_descs \in ColDescInputs, nrows \in LargeRowInputs :
         \E w \in validity_words(nrows) :
            IF w.trap
            THEN /\ pc' = "aborted"
                 /\ last' = Done("kds_sizes", <<col_descs, nrows>>, "aborted", 0, 0)
            ELSE /\ pc' = "returned"
                 /\ last' = Done("kds_sizes", <<col_descs, nrows>>,
                                 kds_sizes(col_descs, nrows, w.value), 0, 1)
    /\ UNCHANGED <<symtab, registry, discovery, gucs, calibration>>

EncInit == Init /\ symtab = {}

EncNext ==
    \/ PG_init
    \/ HostResume
    \/ EncodeBatch
    \/ SizeBatch

EncSpec == EncInit /\ [][EncNext]_vars

(***************************************************************************)
(* The cost model at the scenario batch sizes, with both libraries loaded  *)
(* and the tunables and the calibration state as _PG_init leaves them.     *)
(***************************************************************************)
EstimateScenario == EstimateOf(ScenarioRows)

CostInit == Init /\ symtab = Symbols

CostNext ==
    \/ PG_init
    \/ HostResume
    \/ EstimateScenario

CostSpec == CostInit /\ [][CostNext]_vars

TypeOK ==
    /\ pc \in {"load", "ready", "returned", "aborted"}
    /\ symtab \subseteq Symbols
    /\ gpu_bridge_enabled \in BOOLEAN
    /\ gucs_registered \subseteq register_gucs
    /\ gpu_min_batch_rows \in MinBatchRowsSettings
    /\ calibration_done \in BOOLEAN

(***************************************************************************)
(* Reference definitions used by the properties below.  They are stated    *)
(* over the flattened set (or sequence) of nodes of a tree, not by the     *)
(* recursion of the code.                                                  *)
(***************************************************************************)
RECURSIVE SubNodes(_)
SubNodes(e) ==
    {e} \cup UNION {SubNodes(e.args[i]) : i \in 1..Len(e.args)}
        \cup UNION {SubNodes(e.filter[i]) : i \in 1..Len(e.filter)}

ListNodes(exprs) == UNION {SubNodes(exprs[i]) : i \in 1..Len(exprs)}

IsFunc(n) == n.tag \in {"T_FuncExpr", "T_OpExpr"}

\* An absent expression (NULL pointer) is not a node and is trivially eligible.
NodePasses(reg, n) ==
    \/ n.tag \in {"NULL", "T_Const", "T_Var", "T_Aggref"}
    \/ IsFunc(n) /\ reg.lookup[n.id] > 0

BridgeUsable == gpu_bridge_enabled /\ strom_api.device_func_lookup # NULL

RefCheck(reg, exprs) ==
    /\ BridgeUsable
    /\ exprs # <<>>
    /\ \A n \in ListNodes(exprs) : NodePasses(reg, n)

Registered(reg, f) == [reg EXCEPT !.lookup[f] = IF f = 1 THEN 1 ELSE 2]

Unregistered(reg, f) == [reg EXCEPT !.lookup[f] = 0]

RECURSIVE ArgFuncIds(_)
RECURSIVE ArgFuncIdsOf(_, _)
\* identities of the function/operator nodes reached through argument lists
ArgFuncIdsOf(list, n) ==
    IF n = 0 THEN <<>> ELSE ArgFuncIdsOf(list, n - 1) \o ArgFuncIds(list[n])

ArgFuncIds(e) ==
    (IF IsFunc(e) THEN <<e.id>> ELSE <<>>) \o ArgFuncIdsOf(e.args, Len(e.args))

RECURSIVE SumIds(_, _, _)
SumIds(reg, ids, n) ==
    IF n = 0 THEN RZero
    ELSE RAdd(SumIds(reg, ids, n - 1),
              IF reg.lookup[ids[n]] > 0 THEN reg.cost[reg.lookup[ids[n]]] ELSE RZero)

RefOpcodeCostSum(reg, exprs) ==
    LET ids == ArgFuncIdsOf(exprs, Len(exprs)) IN SumIds(reg, ids, Len(ids))

RefTransferCost ==
    CASE RPos(gpu_transfer_cost_per_byte) -> gpu_transfer_cost_per_byte
      [] ~RPos(gpu_transfer_cost_per_byte) /\ calibration_done /\ RPos(calibrated_transfer_cost)
            -> calibrated_transfer_cost
      [] OTHER -> <<1, 10000>>

RefLaunchOverhead ==
    CASE RPos(gpu_launch_overhead) -> gpu_launch_overhead
      [] ~RPos(gpu_launch_overhead) /\ calibration_done /\ RPos(calibrated_launch_overhead)
            -> calibrated_launch_overhead
      [] OTHER -> RInt(100)

RefParallelism == IF registry.par > 0 THEN registry.par ELSE 1024

AllResolved == Symbols \subseteq symtab

StromResolved == StromSymbols \subseteq symtab

AllPointersSet == \A k \in DOMAIN strom_api : strom_api[k] # NULL

GucValue(name) ==
    CASE name = "timescaledb.gpu_transfer_cost_per_byte" -> gpu_transfer_cost_per_byte
      [] name = "timescaledb.gpu_launch_overhead" -> gpu_launch_overhead
      [] name = "timescaledb.gpu_min_batch_rows" -> gpu_min_batch_rows

PublicOps == {"gpu_check_eligibility", "gpu_estimate_cost", "gpu_calibrate_transfer_cost",
              "gpu_calibrate_launch_overhead", "arrow_batch_to_kds",
              "kds_result_to_partial_agg", "gpu_dispatch_batch"}

(***************************************************************************)
(* Properties.                                                             *)
(***************************************************************************)

\* C1: gpu_dispatch_batch returns ok exactly when the bridge is enabled, the
\* submit entry point is non-null and submit returned 0; disabled or null it
\* falls back without calling submit; otherwise it calls submit exactly once
\* and every nonzero return code is a fallback.
C1_DispatchContract ==
    last.op = "gpu_dispatch_batch" =>
        LET rc == last.args[1]
            available == gpu_bridge_enabled /\ strom_api.xpu_command # NULL
        IN  /\ last.ret = (available /\ rc = 0)
            /\ ~available => last.submits = 0
            /\ available => last.submits = 1
            /\ gpu_bridge_enabled => last.submits = 1
            /\ rc # 0 => last.ret = FALSE

C1_Witness ==
    /\ last.op = "gpu_dispatch_batch"
    /\ gpu_bridge_enabled
    /\ last.args[1] = 1
    /\ last.ret = FALSE
    /\ last.submits = 1

NotAvailable(l) ==
    CASE l.op = "gpu_check_eligibility" -> l.ret = FALSE
      [] l.op = "gpu_estimate_cost" -> ~l.ret.is_valid
      [] l.op = "gpu_dispatch_batch" -> l.ret = FALSE /\ l.submits = 0
      [] OTHER -> TRUE

\* C3: with the bridge disabled after init, every public operation of the
\* analyzer, cost model (estimate and calibrate), transcoder (encode and
\* decode) and dispatcher returns "not available", allocates nothing and
\* leaves the tunables, the calibration state and the discovery state alone.
C3_DisabledIsNoOp ==
    [][(pc = "ready" /\ ~gpu_bridge_enabled /\ last'.op \in PublicOps) =>
            /\ NotAvailable(last')
            /\ last'.pallocs = 0
            /\ UNCHANGED <<gucs, calibration, discovery>>]_vars

\* C4: after init the bridge is enabled exactly when the host sentinel and
\* all four accelerator entry points resolved.
C4_EnabledIffAllFive ==
    pc # "load" =>
        /\ gpu_bridge_enabled <=> AllResolved
        /\ \A sym \in Symbols : sym \notin symtab => ~gpu_bridge_enabled

C4_Witness ==
    /\ last.op = "_PG_init"
    /\ symtab = Symbols
    /\ gpu_bridge_enabled

C5_Record ==
    /\ gpu_bridge_enabled => AllPointersSet
    /\ strom_api = NullApi \/ AllPointersSet
    /\ (pc # "load" /\ ~StromResolved) => strom_api = NullApi

\* C5: after init no operation changes the enabled flag or the capability
\* record; enabled implies all four pointers are set; the record is all or
\* nothing, and all null when any entry point failed to resolve.
C5_EnabledMonomorphic ==
    /\ C5_Record
    /\ [][/\ pc # "load" => (gpu_bridge_enabled' = gpu_bridge_enabled /\ strom_api' = strom_api)
          /\ C5_Record']_vars

C5_Witness ==
    /\ last.op = "gpu_calibrate_transfer_cost"
    /\ calibration_done
    /\ gpu_min_batch_rows = 2
    /\ gpu_bridge_enabled
    /\ AllPointersSet

\* C6: when the accelerator entry points do not resolve, init still registers
\* the three tunables with value 0, SET and RESET of each succeed and take
\* effect, and the status reports enabled = false, pgstrom_detected = false.
C6_TunablesWithoutAccelerator ==
    (pc # "load" /\ ~StromResolved) =>
        /\ gucs_registered = {"timescaledb.gpu_transfer_cost_per_byte",
                              "timescaledb.gpu_launch_overhead",
                              "timescaledb.gpu_min_batch_rows"}
        /\ last.op = "_PG_init" =>
               /\ gpu_transfer_cost_per_byte = RZero
               /\ gpu_launch_overhead = RZero
               /\ gpu_min_batch_rows = 0
        /\ last.op = "SET" => last.ret = "ok" /\ GucValue(last.args[1]) = last.args[2]
        /\ last.op = "gpu_bridge_status" =>
               /\ last.ret.enabled = FALSE
               /\ last.ret.pgstrom_detected = FALSE

C6_Witness ==
    /\ ~StromResolved
    /\ HostSymbol \in symtab
    /\ last.op = "gpu_bridge_status"
    /\ last.ret.min_batch_rows = 2
    /\ last.ret.enabled = FALSE

FuncIdsIn(exprs) == {n.id : n \in {m \in ListNodes(exprs) : IsFunc(m)}}

OthersPass(reg, exprs, f) ==
    /\ BridgeUsable
    /\ exprs # <<>>
    /\ \A n \in ListNodes(exprs) : (IsFunc(n) /\ n.id = f) \/ NodePasses(reg, n)

HasAggref(exprs) == \E n \in ListNodes(exprs) : n.tag = "T_Aggref"

C9_EstimateFormula ==
    last.op = "gpu_estimate_cost" =>
        LET exprs == last.args[1]
            nrows == last.args[2]
            row_width == last.args[3]
            sum == RefOpcodeCostSum(registry, exprs)
            invalid == \/ ~gpu_bridge_enabled
                       \/ nrows <= 0
                       \/ (gpu_min_batch_rows > 0 /\ nrows < gpu_min_batch_rows)
                       \/ sum = RZero
            est == last.ret
        IN  /\ est.is_valid = ~invalid
            /\ est.is_valid =>
                  /\ est.transfer_cost = RMulInt(nrows * row_width * 2, RefTransferCost)
                  /\ est.launch_cost = RefLaunchOverhead
                  /\ est.compute_cost[1] * sum[2] * RefParallelism
                        = nrows * sum[1] * est.compute_cost[2]
                  /\ est.total_cost
                        = RAdd(est.transfer_cost, RAdd(est.launch_cost, est.compute_cost))
            /\ (gpu_min_batch_rows > 0 /\ nrows < gpu_min_batch_rows) => ~est.is_valid
            /\ gpu_min_batch_rows = INT_MAX => ~est.is_valid

C9_Witness ==
    /\ last.op = "gpu_estimate_cost"
    /\ last.ret.is_valid
    /\ gpu_min_batch_rows = 2
    /\ last.args[2] = 2
    /\ last.args[3] = 64

\* C10: each estimate resolves the effective transfer cost and launch overhead
\* from the state current at the call: the tunable if positive, else the
\* calibrated value if calibration is complete and that value is positive,
\* else the default (1e-4 per byte, 100).  Calibrating with 1000000 bytes in
\* 1000 us makes the effective transfer cost 1e-3 while the tunable is 0.
C10_EffectiveValueResolution ==
    /\ last.op = "gpu_estimate_cost" /\ last.ret.is_valid =>
          /\ last.ret.transfer_cost = RMulInt(last.args[2] * last.args[3] * 2, RefTransferCost)
          /\ last.ret.launch_cost = RefLaunchOverhead
    /\ (~calibration_done /\ gpu_transfer_cost_per_byte = RZero) =>
          effective_transfer_cost = <<1, 10000>>
    /\ (last.op = "gpu_calibrate_transfer_cost" /\ last.args = <<1000000, RInt(1000)>>
            /\ gpu_transfer_cost_per_byte = RZero) =>
          effective_transfer_cost = <<1, 1000>>
    /\ RPos(gpu_transfer_cost_per_byte) => effective_transfer_cost = gpu_transfer_cost_per_byte
    /\ RPos(gpu_launch_overhead) => effective_launch_overhead = gpu_launch_overhead

C10_Witness ==
    /\ last.op = "gpu_estimate_cost"
    /\ last.ret.is_valid
    /\ calibration_done
    /\ calibrated_transfer_cost = <<1, 1000>>
    /\ gpu_transfer_cost_per_byte = <<1, 100>>
    /\ last.args[3] = 64
    /\ last.ret.transfer_cost = RMulInt(last.args[2] * 128, <<1, 100>>)

\* C11: with expressions, registry, tunables, calibration state and
\* parallelism fixed, a valid estimate for (nrows, row_width) is no larger than
\* any valid estimate for (n2, w2) with nrows <= n2 and row_width <= w2.
C11_EstimateMonotone ==
    (last.op = "gpu_estimate_cost" /\ last.ret.is_valid) =>
        \A n2 \in NRowsInputs \cup ScenarioRows, w2 \in RowWidthInputs :
            LET est2 == gpu_estimate_cost(registry, last.args[1], n2, w2)
            IN  (last.args[2] <= n2 /\ last.args[3] <= w2 /\ est2.is_valid) =>
                    RLe(last.ret.total_cost, est2.total_cost)

C11_Witness ==
    /\ last.op = "gpu_estimate_cost"
    /\ last.ret.is_valid
    /\ last.args[2] = 2
    /\ last.args[3] = 0
    /\ LET est2 == gpu_estimate_cost(registry, last.args[1], 500, 64)
       IN  est2.is_valid /\ RLt(last.ret.total_cost, est2.total_cost)

\* C12: with opcode cost sum 20, row_width 64, parallelism 1024, all tunables
\* 0 and no calibration, the total cost for 500 rows is greater than
\* 500 * 20 and the total cost for 100000 rows is less than 100000 * 20.
C12_CostCrossover ==
    (/\ last.op = "gpu_estimate_cost"
     /\ last.ret.is_valid
     /\ RefOpcodeCostSum(registry, last.args[1]) = RInt(20)
     /\ last.args[3] = 64
     /\ RefParallelism = 1024
     /\ gpu_transfer_cost_per_byte = RZero
     /\ gpu_launch_overhead = RZero
     /\ gpu_min_batch_rows = 0
     /\ ~calibration_done) =>
        /\ last.args[2] = 500 => RLt(RInt(500 * 20), last.ret.total_cost)
        /\ last.args[2] = 100000 => RLt(last.ret.total_cost, RInt(100000 * 20))

\* C13: calibrating with bytes > 0 and elapsed > 0 sets the calibrated
\* transfer cost to elapsed / bytes, calibrating the launch overhead sets it
\* to max(1.0, elapsed - estimated compute), so never below 1.0, and both mark
\* calibration complete.
C13_CalibrationValues ==
    /\ (last.op = "gpu_calibrate_transfer_cost"
           /\ last.args[1] > 0 /\ RPos(last.args[2])) =>
          /\ calibrated_transfer_cost = RDivInt(last.args[2], last.args[1])
          /\ calibration_done
    /\ last.op = "gpu_calibrate_launch_overhead" =>
          /\ LET d == RSub(last.args[1], last.args[2])
             IN  calibrated_launch_overhead = IF RLt(d, RInt(1)) THEN RInt(1) ELSE d
          /\ RLe(RInt(1), calibrated_launch_overhead)
          /\ calibration_done

\* C14: calibration happens at most once: once calibration is complete and a
\* calibrated value (transfer cost, launch overhead) has been set, no later
\* step changes that value.
C14_CalibrationWriteOnce ==
    [][/\ (calibration_done /\ RPos(calibrated_transfer_cost)) =>
             calibrated_transfer_cost' = calibrated_transfer_cost
       /\ (calibration_done /\ RPos(calibrated_launch_overhead)) =>
             calibrated_launch_overhead' = calibrated_launch_overhead]_vars

(***************************************************************************)
(* Reading a KDS buffer by its layout.                                     *)
(***************************************************************************)
Encoded == pc = "returned" /\ last.op = "arrow_batch_to_kds"

ByteAt(buf, a) == IF a \in DOMAIN buf THEN buf[a] ELSE -1

BytesAt(buf, a, n) == [k \in 1..n |-> ByteAt(buf, a + k - 1)]

U16At(buf, a) == ByteAt(buf, a) + 256 * ByteAt(buf, a + 1)

U32At(buf, a) ==
    ByteAt(buf, a) + 256 * ByteAt(buf, a + 1) + 65536 * ByteAt(buf, a + 2)
        + 16777216 * ByteAt(buf, a + 3)

\* bit i of the bitmap that starts at byte a
BitAt(buf, a, i) == (ByteAt(buf, a + (i \div 8)) \div (2 ^ (i % 8))) % 2

ColOffsetAt(buf, c) == U32At(buf, 16 + 4 * (c - 1))

IsGeometry(col_type) == col_type = "KDS_COL_GEOMETRY"

\* where the layout puts the offset array and the payload of a geometry column
LayoutOffsets(buf, c, nrows) == ColOffsetAt(buf, c) + 8 * ((nrows + 63) \div 64)

LayoutPayload(buf, c, nrows) == LayoutOffsets(buf, c, nrows) + MAXALIGN((nrows + 1) * 4)

GeomOffsetAt(buf, c, nrows, i) == U32At(buf, LayoutOffsets(buf, c, nrows) + 4 * i)

\* the Arrow validity of row i: 1 when no validity buffer is supplied
ArrowValid(arrow, i) ==
    IF arrow.buffers[1].null THEN 1
    ELSE (arrow.buffers[1].bytes[(i \div 8) + 1] \div (2 ^ (i % 8))) % 2

\* the source payload of row i is present and has at least 29 bytes
WellFormed(arrow, i) ==
    /\ ~arrow.buffers[2].null
    /\ ~arrow.buffers[3].null
    /\ arrow.buffers[2].values[i + 2] - arrow.buffers[2].values[i + 1] >= 29

\* coordinate j (0, 1, 2) of the source record of row i
SourceCoord(arrow, i, j) ==
    SubSeq(arrow.buffers[3].bytes, arrow.buffers[2].values[i + 1] + 5 + 8 * j + 1,
           arrow.buffers[2].values[i + 1] + 5 + 8 * j + 8)

\* C15: the header of every encoded buffer holds the size of the allocated
\* buffer at bytes 0-3, the format tag 4 at bytes 4-5, ncols at bytes 6-7 and
\* nrows at bytes 8-11 and at bytes 12-15.
C15_HeaderFields ==
    Encoded =>
        LET buf == last.ret.buffer
        IN  /\ U32At(buf, 0) = Cardinality(DOMAIN buf)
            /\ U32At(buf, 0) = last.ret.buffer_len
            /\ U16At(buf, 4) = 4
            /\ U16At(buf, 6) = Len(last.args[2])
            /\ U32At(buf, 8) = last.args[3]
            /\ U32At(buf, 12) = last.args[3]

C15_Witness ==
    /\ Encoded
    /\ Len(last.args[2]) = 2
    /\ last.args[3] = MaxRows
    /\ U32At(last.ret.buffer, 0) > 128

C17_TrailingValidityBitsZero ==
    (Encoded /\ last.args[3] >= 1) =>
        \A c \in 1..Len(last.args[2]) : \A i \in last.args[3]..63 :
            BitAt(last.ret.buffer, ColOffsetAt(last.ret.buffer, c), i) = 0

\* C18: each valid POINT-Z row is one 48-byte block (type 1, flags 1, SRID,
\* item count 1, raw size 24, then x, y, z) and the payload cursor advances by
\* 48 per valid row: a geometry column of 3 rows without a validity buffer
\* has the offsets 0, 48, 96, 144.
C18_PointZBlocksOf48 ==
    (/\ Encoded
     /\ last.args[2] = <<"KDS_COL_GEOMETRY">>
     /\ last.args[3] = 3
     /\ last.args[1][1].buffers[1].null
     /\ \A i \in 0..2 : WellFormed(last.args[1][1], i)) =>
        \A i \in 0..3 : GeomOffsetAt(last.ret.buffer, 1, 3, i) = 48 * i

\* C19: in every encoded geometry column the offsets array starts at 0, never
\* decreases, and its last entry is the number of payload bytes written.
C19_GeometryOffsets ==
    Encoded =>
        LET buf == last.ret.buffer
            nrows == last.args[3]
            e == arrow_batch_to_kds(last.args[1], last.args[2], nrows)
        IN  \A c \in 1..Len(last.args[2]) :
                (/\ IsGeometry(last.args[2][c])
                 /\ LayoutOffsets(buf, c, nrows) + 4 * (nrows + 1) <= last.ret.buffer_len) =>
                    /\ GeomOffsetAt(buf, c, nrows, 0) = 0
                    /\ \A i \in 0..(nrows - 1) :
                          GeomOffsetAt(buf, c, nrows, i) <= GeomOffsetAt(buf, c, nrows, i + 1)
                    /\ GeomOffsetAt(buf, c, nrows, nrows) = e.payload[c]
                    /\ GeomOffsetAt(buf, c, nrows, nrows)
                          = 44 * Cardinality({i \in 0..(nrows - 1) :
                                                 /\ ArrowValid(last.args[1][c], i) = 1
                                                 /\ WellFormed(last.args[1][c], i)})

C19_Witness ==
    /\ Encoded
    /\ last.args[2] = <<"KDS_COL_FLOAT4", "KDS_COL_GEOMETRY">>
    /\ last.args[3] = 3
    /\ ~last.args[1][2].buffers[1].null
    /\ ArrowValid(last.args[1][2], 0) = 0
    /\ ArrowValid(last.args[1][2], 2) = 1
    /\ ~WellFormed(last.args[1][2], 1)
    /\ WellFormed(last.args[1][2], 2)
    /\ GeomOffsetAt(last.ret.buffer, 2, 3, 2) = 0
    /\ GeomOffsetAt(last.ret.buffer, 2, 3, 3) = 44

\* C20: decoding an encoded buffer by the layout recovers the input: for
\* every row the validity bit is the Arrow validity bit (1 without a validity
\* buffer), every fixed-width value is the source value, and for every valid
\* geometry row with a payload of at least 29 bytes the three coordinates at
\* that row's offset in the payload region are the source x, y, z.
C20_RoundTrip ==
    (Encoded /\ last.args[3] >= 1) =>
        LET buf == last.ret.buffer
            nrows == last.args[3]
        IN  \A c \in 1..Len(last.args[2]) :
                LET arrow == last.args[1][c]
                    typlen == kds_col_typlen(last.args[2][c])
                    bitmap == ColOffsetAt(buf, c)
                    data == bitmap + 8 * ((nrows + 63) \div 64)
                IN  /\ \A i \in 0..(nrows - 1) : BitAt(buf, bitmap, i) = ArrowValid(arrow, i)
                    /\ (typlen > 0 /\ ~arrow.buffers[2].null) =>
                          \A i \in 0..(nrows - 1) :
                              BytesAt(buf, data + i * typlen, typlen)
                                  = SubSeq(arrow.buffers[2].bytes, i * typlen + 1,
                                           (i + 1) * typlen)
                    /\ IsGeometry(last.args[2][c]) =>
                          \A i \in 0..(nrows - 1) :
                              (ArrowValid(arrow, i) = 1 /\ WellFormed(arrow, i)) =>
                                  \A j \in 0..2 :
                                      BytesAt(buf, LayoutPayload(buf, c, nrows)
                                                       + GeomOffsetAt(buf, c, nrows, i)
                                                       + 20 + 8 * j, 8)
                                          = SourceCoord(arrow, i, j)

(***************************************************************************)
(* Decoding of the result buffer.                                          *)
(***************************************************************************)
DecodeReturned == pc = "returned" /\ last.op = "kds_result_to_partial_agg"

\* Byte k (counted from 0) of the result buffer handed to the last decode.
ResultByte(k) == last.args[1].bytes[k + 1]

ZeroDatum == [k \in 1..SIZEOF_DATUM |-> 0]

\* C21: a decode given no buffer, or a length below n_aggs * (sizeof(value) +
\* sizeof(bool)), marks every output null and copies no value; otherwise, the
\* boundary length included, output i is the i-th value of the value array
\* and the i-th flag of the flag array that starts at byte n_aggs * sizeof(value).
C21_DecodeContract ==
    DecodeReturned =>
        LET result_len == last.args[2]
            n_aggs == last.args[3]
        IN  /\ DOMAIN last.ret.out_values = 1..n_aggs
            /\ DOMAIN last.ret.out_nulls = 1..n_aggs
            /\ IF last.args[1].null \/ result_len < n_aggs * (SIZEOF_DATUM + SIZEOF_BOOL)
               THEN \A i \in 1..n_aggs :
                        /\ last.ret.out_nulls[i] = TRUE
                        /\ last.ret.out_values[i] = ZeroDatum
               ELSE \A i \in 1..n_aggs :
                        /\ \A k \in 0..(SIZEOF_DATUM - 1) :
                               last.ret.out_values[i][k + 1]
                                   = ResultByte((i - 1) * SIZEOF_DATUM + k)
                        /\ last.ret.out_nulls[i]
                               = (ResultByte(n_aggs * SIZEOF_DATUM + (i - 1)) # 0)

\* A decode at exactly the boundary length that copied two distinct values,
\* the first flagged null and the second not.
C21_Witness ==
    /\ DecodeReturned
    /\ ~last.args[1].null
    /\ last.args[3] = 2
    /\ last.args[2] = 2 * (SIZEOF_DATUM + SIZEOF_BOOL)
    /\ last.ret.out_nulls = <<TRUE, FALSE>>
    /\ last.ret.out_values[1] # last.ret.out_values[2]
    /\ last.ret.out_values[2] # ZeroDatum

\* The size of a column region as the sizing formula of the layout states it.
LayoutRegion(col_type, nrows) ==
    MAXALIGN(((nrows + 63) \div 64) * 8)
        + (IF IsGeometry(col_type)
           THEN MAXALIGN((nrows + 1) * 4) + MAXALIGN(nrows * XPU_GEOM_POINT_Z_SIZE)
           ELSE MAXALIGN(nrows * kds_col_typlen(col_type)))

RECURSIVE LayoutRegions(_, _, _)
LayoutRegions(col_descs, nrows, c) ==
    IF c > Len(col_descs) THEN 0
    ELSE LayoutRegion(col_descs[c], nrows) + LayoutRegions(col_descs, nrows, c + 1)

\* C22: the size encode allocates is max_align(16 + 4 * ncols) plus, per
\* column, max_align(ceil(nrows/64) * 8) plus max_align(nrows * w) for a
\* fixed-width column or max_align((nrows+1) * 4) + max_align(nrows * 48) for
\* a geometry column.
C22_AllocatedSize ==
    Encoded =>
        last.ret.buffer_len
            = MAXALIGN(KDS_HDR_COL_OFFSETS + 4 * Len(last.args[2]))
                  + LayoutRegions(last.args[2], last.args[3], 1)

\* The same for batches without a geometry column.
C22_FixedWidthSize ==
    (Encoded /\ \A c \in 1..Len(last.args[2]) : ~IsGeometry(last.args[2][c])) =>
        last.ret.buffer_len
            = MAXALIGN(KDS_HDR_COL_OFFSETS + 4 * Len(last.args[2]))
                  + LayoutRegions(last.args[2], last.args[3], 1)

\* C23: when the Arrow array supplies no validity buffer and nrows >= 1, the
\* encoded bitmap has bit i set for every i < nrows and every other bit of
\* the bitmap region zero; for nrows = 3 its first byte is 0b00000111.
C23_NoValidityBitmap ==
    Encoded =>
        LET buf == last.ret.buffer
            nrows == last.args[3]
        IN  \A c \in 1..Len(last.args[2]) :
                (nrows >= 1 /\ last.args[1][c].buffers[1].null) =>
                    /\ \A i \in 0..(64 * ((nrows + 63) \div 64) - 1) :
                           BitAt(buf, ColOffsetAt(buf, c), i) = (IF i < nrows THEN 1 ELSE 0)
                    /\ nrows = 3 => ByteAt(buf, ColOffsetAt(buf, c)) = 7

\* An encoded batch without a validity buffer whose rows fill at least one
\* whole validity word.
C23_Witness ==
    /\ Encoded
    /\ last.args[3] = WordRows
    /\ last.args[1][1].buffers[1].null
    /\ ByteAt(last.ret.buffer, ColOffsetAt(last.ret.buffer, 1) + 7) = 255

\* Row i of a geometry column is skipped by its validity bit.
NullRow(arrow, i) == ArrowValid(arrow, i) = 0

\* Row i of a geometry column has a source payload shorter than 29 bytes.
ShortRow(arrow, i) ==
    /\ ~arrow.buffers[2].null
    /\ ~arrow.buffers[3].null
    /\ arrow.buffers[2].values[i + 2] - arrow.buffers[2].values[i + 1] < 29

\* Rows before row i that are neither null nor short.
EncodedBefore(arrow, i) ==
    Cardinality({j \in 0..(i - 1) : ArrowValid(arrow, j) = 1 /\ WellFormed(arrow, j)})

\* where the conversion pass starts the payload of geometry column c
DataArea(buf, c, nrows) == LayoutOffsets(buf, c, nrows) + 4 * (nrows + 1)

\* the first byte after the region of column c
RegionEnd(buf, c) ==
    IF c < U16At(buf, KDS_HDR_NCOLS_OFF) THEN ColOffsetAt(buf, c + 1)
    ELSE U32At(buf, KDS_HDR_LENGTH_OFF)

\* C24: in a geometry column a row whose validity bit is zero and a row whose
\* source payload is shorter than 29 bytes are handled alike: offsets[i] is
\* the payload cursor, nothing is written and offsets[i+1] = offsets[i]; the
\* other rows are encoded as if the skipped rows were absent.
C24_NullAndShortRows ==
    (Encoded /\ last.args[3] >= 1) =>
        LET buf == last.ret.buffer
            nrows == last.args[3]
        IN  \A c \in 1..Len(last.args[2]) :
                LET arrow == last.args[1][c]
                IN  IsGeometry(last.args[2][c]) =>
                      /\ \A a \in (DataArea(buf, c, nrows) + GeomOffsetAt(buf, c, nrows, nrows))
                                      ..(RegionEnd(buf, c) - 1) : ByteAt(buf, a) = 0
                      /\ \A i \in 0..(nrows - 1) :
                            /\ GeomOffsetAt(buf, c, nrows, i) = 44 * EncodedBefore(arrow, i)
                            /\ (NullRow(arrow, i) \/ ShortRow(arrow, i)) =>
                                   GeomOffsetAt(buf, c, nrows, i + 1)
                                       = GeomOffsetAt(buf, c, nrows, i)
                            /\ (ArrowValid(arrow, i) = 1 /\ WellFormed(arrow, i)) =>
                                   /\ GeomOffsetAt(buf, c, nrows, i + 1)
                                          = GeomOffsetAt(buf, c, nrows, i) + 44
                                   /\ \A j \in 0..2 :
                                          BytesAt(buf, DataArea(buf, c, nrows)
                                                           + GeomOffsetAt(buf, c, nrows, i)
                                                           + 20 + 8 * j, 8)
                                              = SourceCoord(arrow, i, j)

\* A geometry column whose first row is null, whose second row is short and
\* whose third row was encoded at payload offset 0.
C24_Witness ==
    /\ Encoded
    /\ last.args[2] = <<"KDS_COL_GEOMETRY">>
    /\ last.args[3] = 3
    /\ NullRow(last.args[1][1], 0)
    /\ ShortRow(last.args[1][1], 1)
    /\ ArrowValid(last.args[1][1], 2) = 1
    /\ WellFormed(last.args[1][1], 2)
    /\ GeomOffsetAt(last.ret.buffer, 1, 3, 2) = 0
    /\ GeomOffsetAt(last.ret.buffer, 1, 3, 3) = 44
    /\ BytesAt(last.ret.buffer, DataArea(last.ret.buffer, 1, 3) + 20, 8)
           = SourceCoord(last.args[1][1], 2, 0)

(***************************************************************************)
(* Memory safety of the conversion pass.                                   *)
(***************************************************************************)
EncodeCalled == pc \in {"returned", "aborted"} /\ last.op = "arrow_batch_to_kds"

\* C25: for nrows >= 1 every store made while converting column i (bitmap,
\* data, offset array with offsets[nrows], payload blocks) goes to an address
\* inside [col_offset[i], col_offset[i] + region size): none reaches the
\* header, another column's region or memory beyond the buffer.
C25_StoresInsideRegion ==
    (EncodeCalled /\ last.args[3] >= 1) =>
        /\ pc = "returned"
        /\ LET buf == last.ret.buffer
               e == arrow_batch_to_kds(last.args[1], last.args[2], last.args[3])
           IN  /\ ~e.oob
               /\ \A c \in 1..Len(last.args[2]) :
                      /\ ColOffsetAt(buf, c) >= MAXALIGN(KDS_HDR_COL_OFFSETS + 4 * Len(last.args[2]))
                      /\ e.stores[c][1] >= ColOffsetAt(buf, c)
                      /\ e.stores[c][2] <= RegionEnd(buf, c)
                      /\ RegionEnd(buf, c) <= last.ret.buffer_len

\* A three-row batch whose geometry column encoded every row: its stores
\* start at the column offset and end four bytes before the end of the buffer.
C25_Witness ==
    /\ Encoded
    /\ last.args[2] = <<"KDS_COL_FLOAT4", "KDS_COL_GEOMETRY">>
    /\ last.args[3] = 3
    /\ GeomOffsetAt(last.ret.buffer, 2, 3, 3) = 3 * 44
    /\ LET e == arrow_batch_to_kds(last.args[1], last.args[2], last.args[3])
       IN  /\ e.stores[1] = <<ColOffsetAt(last.ret.buffer, 1), ColOffsetAt(last.ret.buffer, 1) + 8 + 12>>
           /\ e.stores[2] = <<ColOffsetAt(last.ret.buffer, 2), last.ret.buffer_len - 12>>

\* C26: with nrows = 0 every store of an encode (header, column offsets,
\* bitmap, the end offset offsets[0] of a geometry column) goes to an address
\* inside the allocated buffer, so the call returns.
C26_EmptyBatchSafe ==
    (EncodeCalled /\ last.args[3] = 0) =>
        /\ pc = "returned"
        /\ LET e == arrow_batch_to_kds(last.args[1], last.args[2], last.args[3])
           IN  /\ ~e.oob
               /\ \A c \in 1..Len(last.args[2]) : e.stores[c][2] <= last.ret.buffer_len

\* The same for empty batches without a geometry column.
C26_EmptyFixedWidthSafe ==
    (/\ EncodeCalled
     /\ last.args[3] = 0
     /\ \A c \in 1..Len(last.args[2]) : ~IsGeometry(last.args[2][c])) =>
        /\ pc = "returned"
        /\ LET e == arrow_batch_to_kds(last.args[1], last.args[2], last.args[3])
           IN  /\ ~e.oob
               /\ \A c \in 1..Len(last.args[2]) : e.stores[c][2] <= last.ret.buffer_len

(***************************************************************************)
(* Exact sizes.  The exact values stay far below 2^64, so the limbs hold   *)
(* them without reduction.                                                  *)
(***************************************************************************)
Sized == pc \in {"returned", "aborted"} /\ last.op = "kds_sizes"

\* ceil(nrows / 64)
ExactWords(nrows) == (nrows \div 64) + (IF nrows % 64 = 0 THEN 0 ELSE 1)

RECURSIVE ExactOffset(_, _, _)
\* the exact offset of column i by the sizing pass; the total for ncols + 1
ExactOffset(col_descs, nrows, i) ==
    IF i = 1 THEN size_t(MAXALIGN(KDS_HDR_COL_OFFSETS + 4 * Len(col_descs)))
    ELSE size_add(ExactOffset(col_descs, nrows, i - 1),
                  size_col_bytes(col_descs[i - 1], nrows, ExactWords(nrows)))

\* C27: for every 0 < nrows <= INT_MAX and every column set, the bitmap size
\* computed on ints, the total size, and the 32-bit length and column-offset
\* fields of the header are the exact values: (nrows + 63) / 64 does not
\* overflow an int and no field is truncated modulo 2^32.
C27_NoWrapAround ==
    Sized =>
        /\ pc = "returned"
        /\ LET col_descs == last.args[1]
               nrows == last.args[2]
           IN  /\ last.ret.words = ExactWords(nrows)
               /\ last.ret.bitmap_bytes = size_t(8 * ExactWords(nrows))
               /\ last.ret.total_size = ExactOffset(col_descs, nrows, Len(col_descs) + 1)
               /\ last.ret.length_val = last.ret.total_size
               /\ \A i \in 1..Len(col_descs) :
                      last.ret.col_off[i] = ExactOffset(col_descs, nrows, i)

\* The same for row counts below 2^28.
C27_SmallRowCounts ==
    (Sized /\ last.args[2] < 2 ^ 28) =>
        /\ pc = "returned"
        /\ LET col_descs == last.args[1]
               nrows == last.args[2]
           IN  /\ last.ret.words = ExactWords(nrows)
               /\ last.ret.bitmap_bytes = size_t(8 * ExactWords(nrows))
               /\ last.ret.total_size = ExactOffset(col_descs, nrows, Len(col_descs) + 1)
               /\ last.ret.total_size = size_t(col_offset(col_descs, nrows, Len(col_descs) + 1))
               /\ last.ret.length_val = last.ret.total_size
               /\ \A i \in 1..Len(col_descs) :
                      last.ret.col_off[i] = ExactOffset(col_descs, nrows, i)

\* The int expression (nrows + 63) / 64 alone, for every row count.
C27_BitmapWordsExact ==
    Sized => (pc = "returned" /\ last.ret.words = ExactWords(last.args[2]))

\* The casts to uint32 alone, for row counts whose sum nrows + 63 is an int.
C27_HeaderFieldsExact ==
    (Sized /\ last.args[2] <= INT_MAX - 63) =>
        /\ pc = "returned"
        /\ last.ret.total_size
               = ExactOffset(last.args[1], last.args[2], Len(last.args[1]) + 1)
        /\ last.ret.length_val = last.ret.total_size

\* C28: in every encoded geometry column a row has a non-empty payload
\* (offsets[i+1] > offsets[i]) exactly when validity bit i of the encoded
\* bitmap is set.
C28_ValidityMatchesPayload ==
    (Encoded /\ last.args[3] >= 1) =>
        LET buf == last.ret.buffer
            nrows == last.args[3]
        IN  \A c \in 1..Len(last.args[2]) :
                IsGeometry(last.args[2][c]) =>
                    \A i \in 0..(nrows - 1) :
                        (GeomOffsetAt(buf, c, nrows, i + 1) > GeomOffsetAt(buf, c, nrows, i))
                            <=> (BitAt(buf, ColOffsetAt(buf, c), i) = 1)

\* One direction alone: a row with a payload has its validity bit set.
C28_PayloadImpliesValid ==
    (Encoded /\ last.args[3] >= 1) =>
        LET buf == last.ret.buffer
            nrows == last.args[3]
        IN  \A c \in 1..Len(last.args[2]) :
                IsGeometry(last.args[2][c]) =>
                    \A i \in 0..(nrows - 1) :
                        (GeomOffsetAt(buf, c, nrows, i + 1) > GeomOffsetAt(buf, c, nrows, i))
                            => (BitAt(buf, ColOffsetAt(buf, c), i) = 1)

(***************************************************************************)
(* Eligibility against costing.                                            *)
(***************************************************************************)
Estimated == pc = "returned" /\ last.op = "gpu_estimate_cost"

\* a function/operator application whose opcode has a positive cost weight
Costed(reg, n) ==
    /\ IsFunc(n)
    /\ reg.lookup[n.id] > 0
    /\ RPos(reg.cost[reg.lookup[n.id]])

\* the nodes of a list reached through argument lists only
RECURSIVE ArgNodes(_)
ArgNodes(e) == {e} \cup UNION {ArgNodes(e.args[i]) : i \in 1..Len(e.args)}

\* C29: when the bridge is enabled, nrows >= 1, nrows >= min_batch_rows and
\* check accepts a list that holds a function/operator application with a
\* positive cost weight, in an aggregate argument or in an aggregate filter,
\* the opcode-cost sum is positive and the estimate is valid.
C29_EligibleCostedIsValid ==
    (/\ Estimated
     /\ gpu_bridge_enabled
     /\ last.args[2] >= 1
     /\ last.args[2] >= gpu_min_batch_rows
     /\ gpu_check_eligibility(registry, last.args[1])
     /\ \E n \in ListNodes(last.args[1]) : Costed(registry, n)) =>
        /\ RPos(SumCosts(registry, last.args[1], Len(last.args[1])))
        /\ last.ret.is_valid

\* The same when the costed node sits in an argument list.
C29_CostedArgumentIsValid ==
    (/\ Estimated
     /\ gpu_bridge_enabled
     /\ last.args[2] >= 1
     /\ last.args[2] >= gpu_min_batch_rows
     /\ gpu_check_eligibility(registry, last.args[1])
     /\ \E i \in 1..Len(last.args[1]) :
            \E n \in ArgNodes(last.args[1][i]) : Costed(registry, n)) =>
        /\ RPos(SumCosts(registry, last.args[1], Len(last.args[1])))
        /\ last.ret.is_valid

\* C30: an estimate is valid only for a list that check accepts: when check
\* rejects the list (a function/operator without a positive opcode, or a node
\* of an unsupported kind) the estimate is invalid for every nrows and
\* row_width.
C30_IneligibleIsInvalid ==
    (Estimated /\ ~gpu_check_eligibility(registry, last.args[1])) => ~last.ret.is_valid

\* The same for the rejections that the estimate tests itself: the bridge
\* disabled, or an empty list.
C30_DisabledOrEmptyIsInvalid ==
    (Estimated /\ (~gpu_bridge_enabled \/ last.args[1] = <<>>)) => ~last.ret.is_valid

=============================================================================
